---- MODULE Spec2Model ----
(***************************************************************************)
(* Drawing-processing worker: the job queue orchestrator (job_processor.py *)
(* run_poll_loop / _run_one_cycle), the stage runner (process_drawing_job) *)
(* and the stores they read and write.  One polling task; the functions    *)
(* it hands to asyncio.to_thread run step by step, every external call     *)
(* (store, blob store, rasterizer, OCR, model, vector index) either        *)
(* returning or raising.                                                   *)
(***************************************************************************)
EXTENDS Integers, Sequences, FiniteSets, TLC

\* ---------------------------------------------------------------- bounds
MaxJobs == 2          \* submissions accepted by the endpoint
MaxPages == 1         \* pages of a PDF, page images uploaded without one
MaxLines == 3         \* lines of the text given to the rule engine
OcrPages == 2         \* page images of the drawing whose OCR run is followed
MaxTokens == 2        \* words recognized on one page
BatchSize == 1        \* tokens per insert (batch_size, 1000 in the source)

Drawings == {"d1", "d2"}

\* Python's None, and the value of job when the fetch returned none.
None == "None"
NoJob == 0

\* datetime.now(timezone.utc).isoformat(): some non-null text.
Timestamp == "timestamp"
NoExc == "NoExc"

\* str(e) of the exceptions the stage runner and the job store can raise.
CompanyIdNotFound == "company_id not found"
NoImagesFromPdf == "no images generated from PDF"
ExternalError == "external call failed"
UpsertError == "vector index upsert failed"
JobStoreError == "job store call failed"

VARIABLES
    settings,     \* [supabase]: whether the store's credentials are configured
    jobs,         \* processing_jobs: sequence of rows, id = index
    drawings,     \* drawings table: id -> row
    files,        \* drawing_files table and blobs: id -> artifact counts
    vectors,      \* vector index: set of [id, values, company_id, drawing_id]
    stop,         \* the stop event (set together with the task's cancel)
    pc,           \* position of the polling task / of the thread it awaits
    job,          \* _run_one_cycle: job_id of the fetched job
    exc,          \* exception in flight in _run_one_cycle's try block
    stagesRun,    \* stages invoked in the current stage-runner run (its log)
    stagesFailed, \* stages whose failure was caught and logged in this run
    other,        \* a second worker process: its stop, pc, job, exc and logs
    cascade,      \* one call of the extract stage: inputs, position, calls, row
    ocrRun,       \* one call of process_ocr_for_drawing: position, lists, tokens
    rules,        \* one call of _extract_by_rules: lines, position, result
    norm          \* one call of _normalize_ai_result: input, position, output

vars == <<settings, jobs, drawings, files, vectors, stop, pc, job, exc,
          stagesRun, stagesFailed, other, cascade, ocrRun, rules, norm>>

\* What the single worker process never touches.
ext == <<other, cascade, ocrRun, rules, norm>>

\* The runs of single functions, looked at step by step on their own.
units == <<cascade, ocrRun, rules, norm>>

locals == <<stagesRun, stagesFailed>>

\* ------------------------------------------------------------- job store
JobIds == DOMAIN jobs

NewJob(drawing_id, created) ==
    [drawing_id |-> drawing_id, status |-> "queued", step |-> None,
     error_message |-> None, started_at |-> None, finished_at |-> None,
     created_at |-> created]

\* Mutants of the status filter: no filter; queued or running.
FetchAnyStatus(j) == TRUE

FetchQueuedOrRunning(j) == j.status \in {"queued", "running"}

\* .eq("status", "queued")
FetchFilter(j) == j.status = "queued"

\* Mutant of the ordering: desc=True.
LastByCreatedAt(rows) ==
    {i \in rows : \A k \in rows : jobs[i].created_at >= jobs[k].created_at}

\* .order("created_at", desc=False): the rows that may come first.
FirstByCreatedAt(rows) ==
    {i \in rows : \A k \in rows : jobs[i].created_at <= jobs[k].created_at}

\* _fetch_one_queued_job: the rows the query may return (ties in created_at
\* are ordered by the store as it pleases); empty when it returns None.
fetch_one_queued_job ==
    FirstByCreatedAt({i \in JobIds : FetchFilter(jobs[i])})

\* _update_job: only the keys given (not None) enter the payload.
update_job(job_id, status, step, error_message, started_at, finished_at) ==
    [jobs EXCEPT ![job_id] =
        [@ EXCEPT !.status = status,
                  !.step = IF step = None THEN @ ELSE step,
                  !.error_message = IF error_message = None THEN @ ELSE error_message,
                  !.started_at = IF started_at = None THEN @ ELSE started_at,
                  !.finished_at = IF finished_at = None THEN @ ELSE finished_at]]

\* --------------------------------------------------------- initial state
\* No second worker process is deployed; no extract stage is looked into.
NoWorker == <<>>

NoCascade == <<>>

NoOcrRun == <<>>

NoRules == <<>>

NoNorm == <<>>

NoDoc == <<>>

NoColumns == <<>>

InitDrawing(company) ==
    [status |-> "uploaded", company_id |-> company, extracted_json |-> NoDoc,
     columns |-> NoColumns]

NoResult == <<>>

InitFiles(pdf, pages, images) ==
    [has_pdf |-> pdf, pdf_pages |-> pages, page_images |-> images, thumbnails |-> 0]

\* What the uploader leaves: an original PDF, or page images without one.
FileStates ==
    {InitFiles(TRUE, n, 0) : n \in 0..MaxPages}
    \cup {InitFiles(FALSE, 0, i) : i \in 0..MaxPages}

\* d1 is any drawing; d2 is an owned drawing with nothing uploaded yet.
InitDrawings ==
    {[d \in Drawings |-> IF d = "d1" THEN InitDrawing(c) ELSE InitDrawing("c1")] :
        c \in {None, "c1"}}

InitFileIndex ==
    {[d \in Drawings |-> IF d = "d1" THEN f ELSE InitFiles(FALSE, 0, 0)] :
        f \in FileStates}

Init ==
    /\ settings \in [supabase : BOOLEAN]
    /\ jobs = <<>>
    /\ drawings \in InitDrawings
    /\ files \in InitFileIndex
    /\ vectors = {}
    /\ stop = FALSE
    /\ pc = "fetch"
    /\ job = NoJob
    /\ exc = NoExc
    /\ stagesRun = {}
    /\ stagesFailed = {}
    /\ other = NoWorker
    /\ cascade = NoCascade
    /\ ocrRun = NoOcrRun
    /\ rules = NoRules
    /\ norm = NoNorm

\* ------------------------------------------------------------ environment
\* The store's now() at an insert: the reading of the row inserted last, or
\* a later one (readings are numbered from 1).
CreatedAtReadings ==
    IF jobs = <<>> THEN {1}
    ELSE {jobs[Len(jobs)].created_at, jobs[Len(jobs)].created_at + 1}

\* POST /api/jobs/process: insert one queued row (created_at is the store's now()).
process_drawing ==
    /\ settings.supabase
    /\ Len(jobs) < MaxJobs
    /\ \E d \in Drawings, t \in CreatedAtReadings :
          jobs' = Append(jobs, NewJob(d, t))
    /\ UNCHANGED <<settings, drawings, files, vectors, stop, pc, job, exc, locals>>

\* ------------------------------------------------------ polling task
PipelinePcs ==
    {"set_processing", "lookup", "rasterize", "ocr", "extract", "vectorize"}

\* Where the task resumes when the function it awaits in a thread finishes:
\* a task cancelled meanwhile gets CancelledError at that await and
\* run_poll_loop breaks out of its loop.
After(next) == IF stop THEN "cancelled" ELSE next

\* The drawing of the job in hand.
D == jobs[job].drawing_id

ResetLocals ==
    /\ job' = NoJob
    /\ exc' = NoExc
    /\ stagesRun' = {}
    /\ stagesFailed' = {}

\* run_poll_loop: Supabase is not configured, the cycle is skipped.
PollSkip ==
    /\ pc = "fetch"
    /\ ~settings.supabase
    /\ pc' = After("sleep")
    /\ UNCHANGED <<settings, jobs, drawings, files, vectors, stop, job, exc, locals>>

\* _run_one_cycle: the fetch returns a job.
FetchJob ==
    /\ pc = "fetch"
    /\ settings.supabase
    /\ \E i \in fetch_one_queued_job : job' = IF stop THEN NoJob ELSE i
    /\ pc' = After("claim")
    /\ UNCHANGED <<settings, jobs, drawings, files, vectors, stop, exc, locals>>

\* _run_one_cycle: no queued job, the cycle returns.
FetchNone ==
    /\ pc = "fetch"
    /\ settings.supabase
    /\ fetch_one_queued_job = {}
    /\ pc' = After("sleep")
    /\ UNCHANGED <<settings, jobs, drawings, files, vectors, stop, job, exc, locals>>

\* The fetch raises: the exception escapes the cycle and is logged by the loop.
FetchRaises ==
    /\ pc = "fetch"
    /\ settings.supabase
    /\ pc' = After("sleep")
    /\ UNCHANGED <<settings, jobs, drawings, files, vectors, stop, job, exc, locals>>

\* Mutant: the claim as a compare-and-swap on the status.
ClaimWriteIfQueued ==
    IF jobs[job].status = "queued"
        THEN update_job(job, "running", "convert", None, Timestamp, None)
        ELSE jobs

\* The claim: _update_job(job_id, "running", step="convert", started_at=now).
ClaimWrite == update_job(job, "running", "convert", None, Timestamp, None)

ClaimNext == "set_processing"

Claim ==
    /\ pc = "claim"
    /\ jobs' = ClaimWrite
    /\ pc' = After(ClaimNext)
    /\ UNCHANGED <<settings, drawings, files, vectors, stop, job, exc, locals>>

\* Mutant: the failure of the claim write is swallowed and the runner starts.
ClaimFailsRunsAnyway ==
    /\ pc = "claim"
    /\ pc' = After(ClaimNext)
    /\ UNCHANGED <<settings, jobs, drawings, files, vectors, stop, job, exc, locals>>

\* Mutant: the exception of the claim write ends the polling task.
ClaimFailsEndsLoop ==
    /\ pc = "claim"
    /\ pc' = "stopped"
    /\ ResetLocals
    /\ UNCHANGED <<settings, jobs, drawings, files, vectors, stop>>

\* The claim write raises outside the try block: the cycle ends, the job
\* stays as it was.
ClaimFails ==
    /\ pc = "claim"
    /\ pc' = After("sleep")
    /\ ResetLocals
    /\ UNCHANGED <<settings, jobs, drawings, files, vectors, stop>>

\* ------------------------------------------------------ stage runner
\* What no step of process_drawing_job touches.
orchestratorState == <<settings, jobs, stop, job>>

\* An exception leaves process_drawing_job: _run_one_cycle's except clause
\* takes it (a cancelled task never gets there).
Propagate(e) ==
    /\ exc' = e
    /\ pc' = After("mark_error")

\* process_drawing_job returns.
Return ==
    /\ exc' = exc
    /\ pc' = After("mark_success")

\* Mutant: a stage without its try/except.
CaughtAborts(next) == "mark_error"

\* try/except around a stage: the failure is logged and the runner goes on.
CaughtNext(next) == next

Caught(stage, next) ==
    /\ stagesFailed' = stagesFailed \cup {stage}
    /\ pc' = CaughtNext(next)
    /\ exc' = exc

Truthy(v) == v \notin {None, ""}

\* Mutant: the writer stores a document that holds its own key only.
OnlyKey(doc, key, value) == [k \in {key} |-> value]

\* existing_json[key] = value on a document read from the drawing row.
SetKey(doc, key, value) ==
    [k \in DOMAIN doc \cup {key} |-> IF k = key THEN value ELSE doc[k]]

\* Mutant: the runner without its first call.
SetProcessingSkipped ==
    /\ pc = "set_processing"
    /\ pc' = "lookup"
    /\ UNCHANGED <<orchestratorState, drawings, files, vectors, exc, locals>>

\* drawings.update({"status": "processing"}), the first call of the runner.
SetProcessing ==
    /\ pc = "set_processing"
    /\ drawings' = [drawings EXCEPT ![D].status = "processing"]
    /\ pc' = "lookup"
    /\ UNCHANGED <<orchestratorState, files, vectors, exc, locals>>

SetProcessingRaises ==
    /\ pc = "set_processing"
    /\ Propagate(ExternalError)
    /\ UNCHANGED <<orchestratorState, drawings, files, vectors, locals>>

\* The lookup of the original PDF artifact and, without one, of page images.
LookupPdf ==
    /\ pc = "lookup"
    /\ files[D].has_pdf
    /\ pc' = "rasterize"
    /\ UNCHANGED <<orchestratorState, drawings, files, vectors, exc, locals>>

\* No PDF, but page images are registered: rasterization is skipped.
LookupPageImages ==
    /\ pc = "lookup"
    /\ ~files[D].has_pdf
    /\ files[D].page_images > 0
    /\ pc' = "ocr"
    /\ UNCHANGED <<orchestratorState, drawings, files, vectors, exc, locals>>

\* Mutant: the runner goes on to the OCR stage without any artifact.
LookupNothingGoesOn ==
    /\ pc = "lookup"
    /\ ~files[D].has_pdf
    /\ files[D].page_images = 0
    /\ pc' = "ocr"
    /\ UNCHANGED <<orchestratorState, drawings, files, vectors, exc, locals>>

\* Neither: the runner returns.
LookupNothing ==
    /\ pc = "lookup"
    /\ ~files[D].has_pdf
    /\ files[D].page_images = 0
    /\ Return
    /\ UNCHANGED <<orchestratorState, drawings, files, vectors, locals>>

LookupRaises ==
    /\ pc = "lookup"
    /\ Propagate(ExternalError)
    /\ UNCHANGED <<orchestratorState, drawings, files, vectors, locals>>

\* Mutant: process_pdf wrapped like the later stages.
RasterizeFailureCaught(e) ==
    /\ exc' = exc
    /\ pc' = "ocr"

\* process_pdf is called outside every try block: its exception leaves the runner.
RasterizeFailure(e) == Propagate(e)

\* process_pdf registers one thumbnail, then one page_image per page.
Registered(f, thumbs, pages) ==
    [f EXCEPT !.thumbnails = @ + thumbs, !.page_images = @ + pages]

\* process_pdf runs to its end.
Rasterize ==
    /\ pc = "rasterize"
    /\ drawings[D].company_id # None
    /\ files[D].pdf_pages > 0
    /\ stagesRun' = stagesRun \cup {"rasterize"}
    /\ files' = [files EXCEPT ![D] = Registered(@, 1, @.pdf_pages)]
    /\ pc' = "ocr"
    /\ UNCHANGED <<orchestratorState, drawings, vectors, exc, stagesFailed>>

\* process_pdf: _get_company_id yields nothing.
RasterizeNoCompany ==
    /\ pc = "rasterize"
    /\ drawings[D].company_id = None
    /\ stagesRun' = stagesRun \cup {"rasterize"}
    /\ RasterizeFailure(CompanyIdNotFound)
    /\ UNCHANGED <<orchestratorState, drawings, files, vectors, stagesFailed>>

\* Mutant: process_pdf without its check of the page count.
RasterizeNoPagesGoesOn ==
    /\ pc = "rasterize"
    /\ drawings[D].company_id # None
    /\ files[D].pdf_pages = 0
    /\ stagesRun' = stagesRun \cup {"rasterize"}
    /\ pc' = "ocr"
    /\ UNCHANGED <<orchestratorState, drawings, files, vectors, exc, stagesFailed>>

\* process_pdf: the rasterizer yields no page.
RasterizeNoPages ==
    /\ pc = "rasterize"
    /\ drawings[D].company_id # None
    /\ files[D].pdf_pages = 0
    /\ stagesRun' = stagesRun \cup {"rasterize"}
    /\ RasterizeFailure(NoImagesFromPdf)
    /\ UNCHANGED <<orchestratorState, drawings, files, vectors, stagesFailed>>

\* process_pdf: the company read, the download or the conversion raises.
RasterizeRaises ==
    /\ pc = "rasterize"
    /\ stagesRun' = stagesRun \cup {"rasterize"}
    /\ RasterizeFailure(ExternalError)
    /\ UNCHANGED <<orchestratorState, drawings, files, vectors, stagesFailed>>

\* process_pdf: an upload or a registration raises; the thumbnail and the
\* pages registered before it stay registered.
RasterizeRaisesMidway ==
    /\ pc = "rasterize"
    /\ drawings[D].company_id # None
    /\ files[D].pdf_pages > 0
    /\ stagesRun' = stagesRun \cup {"rasterize"}
    /\ \E k \in 0..(files[D].pdf_pages - 1) :
          files' = [files EXCEPT ![D] = Registered(@, 1, k)]
    /\ RasterizeFailure(ExternalError)
    /\ UNCHANGED <<orchestratorState, drawings, vectors, stagesFailed>>

\* process_ocr_for_drawing: one pages entry per page image; the text is
\* empty when no page yields any.
OcrResults(d) ==
    {[ocr_text |-> t, pages |-> files[d].page_images] :
        t \in IF files[d].page_images = 0 THEN {""} ELSE {"", "text"}}

\* The OCR result is merged under the ocr key of extracted_json.
MergeOcr(row, r) ==
    IF r.ocr_text # "" \/ r.pages > 0
        THEN [row EXCEPT !.extracted_json = SetKey(@, "ocr", r)]
        ELSE row

Ocr ==
    /\ pc = "ocr"
    /\ stagesRun' = stagesRun \cup {"ocr"}
    /\ \E r \in OcrResults(D) :
          drawings' = [drawings EXCEPT ![D] = MergeOcr(@, r)]
    /\ pc' = "extract"
    /\ UNCHANGED <<orchestratorState, files, vectors, exc, stagesFailed>>

\* process_ocr_for_drawing raises (its client or its listing of the pages).
OcrRaises ==
    /\ pc = "ocr"
    /\ stagesRun' = stagesRun \cup {"ocr"}
    /\ Caught("ocr", "extract")
    /\ UNCHANGED <<orchestratorState, drawings, files, vectors>>

\* The read or the write of extracted_json for the merge raises.
OcrMergeRaises ==
    /\ pc = "ocr"
    /\ \E r \in OcrResults(D) : r.ocr_text # "" \/ r.pages > 0
    /\ stagesRun' = stagesRun \cup {"ocr"}
    /\ Caught("ocr", "extract")
    /\ UNCHANGED <<orchestratorState, drawings, files, vectors>>

\* process_ai_extraction_for_drawing: {} without stored OCR text, else what
\* the cascade yields.
StoredOcrText(d) ==
    IF "ocr" \in DOMAIN drawings[d].extracted_json
        THEN drawings[d].extracted_json["ocr"].ocr_text
        ELSE ""

ExtractionResults ==
    {[part_name |-> "plate", material |-> None]}

AiOutcomes(d) ==
    IF StoredOcrText(d) = "" THEN {NoResult} ELSE {NoResult} \cup ExtractionResults

\* ---------------------------------------------- extraction records
\* A JSON list is written as text: the empty list and a list of one tag.
EmptyList == "[]"

TagList == "[tag]"

IsList(v) == v \in {EmptyList, TagList}

\* dict.get(key): None when the key is absent.
Get(d, k) == IF k \in DOMAIN d THEN d[k] ELSE None

\* "val is None or val == ''".
Missing(v) == v \in {None, ""}

\* Python's falsy values among those a field can hold.
Falsy(v) == v \in {None, "", EmptyList}

\* _normalize_ai_result: column_keys.
ColumnKeys ==
    {"title", "drawing_no", "part_name", "material", "surface_treatment",
     "process_note", "issue_date", "tags"}

\* _AI_KEY_TO_COLUMN: the Japanese keys a model may answer with (written
\* in Latin letters), in the dict's order, and the column of each.
AliasOrder ==
    <<"hinmei", "zaishitsu", "zuban", "hyomenshori", "shorishiji",
      "netsushori", "shutsuzubi", "taitoru", "tagu">>

AI_KEY_TO_COLUMN ==
    [hinmei |-> "part_name", zaishitsu |-> "material", zuban |-> "drawing_no",
     hyomenshori |-> "surface_treatment", shorishiji |-> "process_note",
     netsushori |-> "process_note", shutsuzubi |-> "issue_date",
     taitoru |-> "title", tagu |-> "tags"]

\* The first aliased key of the column that holds a value, if any.
AliasValue(d, en_key) ==
    LET found == {i \in 1..Len(AliasOrder) :
                     /\ AI_KEY_TO_COLUMN[AliasOrder[i]] = en_key
                     /\ ~Missing(Get(d, AliasOrder[i]))}
    IN IF found = {} THEN None
       ELSE Get(d, AliasOrder[CHOOSE i \in found : \A k \in found : i <= k])

\* Mutant: the aliased keys are not looked at.
CanonicalOnly(d, en_key) == Get(d, en_key)

NormalizedValue(d, en_key) ==
    IF Missing(Get(d, en_key)) THEN AliasValue(d, en_key) ELSE Get(d, en_key)

\* _normalize_ai_result: the canonical key's value, else an alias's; tags
\* only when a list.
normalize_ai_result(ai_result) ==
    [en_key \in {k \in ColumnKeys :
                    /\ ~Missing(NormalizedValue(ai_result, k))
                    /\ k = "tags" => IsList(NormalizedValue(ai_result, k))} |->
        NormalizedValue(ai_result, en_key)]

\* _has_any_extracted_value on a dict.
has_any_extracted_value(data) ==
    \E k \in DOMAIN data :
        IF k = "tags" THEN data[k] = TagList ELSE ~Missing(data[k])

\* The symbols of a text (TLC cannot index a string): the characters one by
\* one for the texts in which digits, spaces or punctuation matter; a word
\* of the drawing's language is one symbol, written in Latin letters, and
\* so is every text not listed.  "page" is the word of the page marker.
Chars(v) ==
    CASE v = "2024-01-05" -> <<"2", "0", "2", "4", "-", "0", "1", "-", "0", "5">>
      [] v = "2024/01/05" -> <<"2", "0", "2", "4", "/", "0", "1", "/", "0", "5">>
      [] v = "2024-1-5" -> <<"2", "0", "2", "4", "-", "1", "-", "5">>
      [] v = "2509-0017" -> <<"2", "5", "0", "9", "-", "0", "0", "1", "7">>
      [] v = "2509-0017-A" ->
            <<"2", "5", "0", "9", "-", "0", "0", "1", "7", "-", "A">>
      [] v = "No.2509-0017" ->
            <<"N", "o", ".", "2", "5", "0", "9", "-", "0", "0", "1", "7">>
      [] v = "No." -> <<"N", "o", ".">>
      [] v = "SS400" -> <<"S", "S", "4", "0", "0">>
      [] v = "| SS400" -> <<"|", " ", "S", "S", "4", "0", "0">>
      [] v = " SS400" -> <<" ", "S", "S", "4", "0", "0">>
      [] v = "[page 1]" -> <<"[", "page", " ", "1", "]">>
      [] v = "|[page 1]" -> <<"|", "[", "page", " ", "1", "]">>
      [] v = "|" -> <<"|">>
      [] v = " " -> <<" ">>
      [] v = "" -> <<>>
      [] OTHER -> <<v>>

SpelledTexts ==
    {"2024-01-05", "2024/01/05", "2024-1-5", "2509-0017", "2509-0017-A",
     "No.2509-0017", "No.", "SS400", "| SS400", " SS400", "[page 1]", "|[page 1]", "|", " "}

\* The text that has these symbols.
Text(cs) ==
    IF cs = <<>> THEN ""
    ELSE IF \E t \in SpelledTexts : Chars(t) = cs
        THEN CHOOSE t \in SpelledTexts : Chars(t) = cs
        ELSE cs[1]

DateTexts == {"2024-01-05", "2024/01/05", "2024-1-5"}

DigitValue(c) ==
    CASE c = "0" -> 0 [] c = "1" -> 1 [] c = "2" -> 2 [] c = "3" -> 3
      [] c = "4" -> 4 [] c = "5" -> 5 [] c = "6" -> 6 [] c = "7" -> 7
      [] c = "8" -> 8 [] c = "9" -> 9 [] OTHER -> -1

IsDigit(c) == DigitValue(c) >= 0

AllDigits(cs) == \A i \in 1..Len(cs) : IsDigit(cs[i])

\* The number a run of one or two digits denotes.
Number(cs) ==
    IF Len(cs) = 1 THEN DigitValue(cs[1])
    ELSE 10 * DigitValue(cs[1]) + DigitValue(cs[2])

\* datetime.strptime(text, "%Y-%m-%d") returns: four digits of year, then
\* a month and a day of one or two digits each, and nothing else.
StrptimeAccepts(cs) ==
    \E m \in 1..2, d \in 1..2 :
        /\ Len(cs) = 6 + m + d
        /\ AllDigits(SubSeq(cs, 1, 4))
        /\ cs[5] = "-"
        /\ AllDigits(SubSeq(cs, 6, 5 + m))
        /\ Number(SubSeq(cs, 6, 5 + m)) \in 1..12
        /\ cs[6 + m] = "-"
        /\ AllDigits(SubSeq(cs, 7 + m, 6 + m + d))
        /\ Number(SubSeq(cs, 7 + m, 6 + m + d)) \in 1..31

\* A window of the text matches \d{4}<sep>\d{2}<sep>\d{2}.
HasDateAt(cs, i, sep) ==
    /\ i + 9 <= Len(cs)
    /\ AllDigits(SubSeq(cs, i, i + 3))
    /\ cs[i + 4] = sep
    /\ AllDigits(SubSeq(cs, i + 5, i + 6))
    /\ cs[i + 7] = sep
    /\ AllDigits(SubSeq(cs, i + 8, i + 9))

\* _extract_by_rules keeps an issue_date in which re.search finds the
\* pattern with hyphens or the one with slashes.
RuleKeepsDate(cs) ==
    \E i \in 1..Len(cs) : HasDateAt(cs, i, "-") \/ HasDateAt(cs, i, "/")

\* The text is a date in YYYY-MM-DD form.
IsIsoDate(cs) == Len(cs) = 10 /\ HasDateAt(cs, 1, "-")

\* The date check of process_ai_extraction_for_drawing: a truthy issue_date
\* that strptime rejects becomes None.
ValidateIssueDate(record) ==
    IF /\ ~Falsy(Get(record, "issue_date"))
       /\ ~StrptimeAccepts(Chars(record["issue_date"]))
        THEN [record EXCEPT !["issue_date"] = None]
        ELSE record

\* Mutant: every key of the result is written to its column, null or not.
save_every_key(row, result) ==
    [row EXCEPT
       !.columns = [k \in DOMAIN @ \cup (DOMAIN result \cap ColumnKeys) |->
                       IF k \in DOMAIN result THEN result[k] ELSE @[k]],
       !.extracted_json = SetKey(@, "ai", result)]

\* save_extracted_fields_to_drawing: the truthy fields of the normalized
\* result go to the columns, the result as given goes under the ai key.
save_extracted_fields_to_drawing(row, result) ==
    LET normalized == normalize_ai_result(result)
        set == {k \in DOMAIN normalized :
                   /\ ~Falsy(normalized[k])
                   /\ k = "tags" => IsList(normalized[k])}
    IN [row EXCEPT
          !.columns = [k \in DOMAIN @ \cup set |->
                          IF k \in set THEN normalized[k] ELSE @[k]],
          !.extracted_json = SetKey(@, "ai", result)]

Extract ==
    /\ pc = "extract"
    /\ stagesRun' = stagesRun \cup {"extract"}
    /\ \E r \in AiOutcomes(D) :
          drawings' = [drawings EXCEPT ![D] =
                          IF r # NoResult
                              THEN save_extracted_fields_to_drawing(@, r)
                              ELSE @]
    /\ pc' = "vectorize"
    /\ UNCHANGED <<orchestratorState, files, vectors, exc, stagesFailed>>

\* process_ai_extraction_for_drawing raises.
ExtractRaises ==
    /\ pc = "extract"
    /\ stagesRun' = stagesRun \cup {"extract"}
    /\ Caught("extract", "vectorize")
    /\ UNCHANGED <<orchestratorState, drawings, files, vectors>>

\* save_extracted_fields_to_drawing raises.
ExtractSaveRaises ==
    /\ pc = "extract"
    /\ AiOutcomes(D) # {NoResult}
    /\ stagesRun' = stagesRun \cup {"extract"}
    /\ Caught("extract", "vectorize")
    /\ UNCHANGED <<orchestratorState, drawings, files, vectors>>

\* _build_search_text is non-empty when there is OCR text or an extracted field.
HasSearchText(doc) ==
    \/ /\ "ocr" \in DOMAIN doc
       /\ doc["ocr"].ocr_text # ""
    \/ /\ "ai" \in DOMAIN doc
       /\ \E k \in DOMAIN doc["ai"] : Truthy(doc["ai"][k])

\* vectorize_drawing_for_search can get as far as the upsert (when the
\* index is configured and the embedding call yields a vector).
ReachesUpsert(d) ==
    /\ drawings[d].company_id # None
    /\ HasSearchText(drawings[d].extracted_json)

\* _build_search_text: the parts the text is joined from, the OCR text and
\* the extracted fields.  The embedding is computed from this text.
build_search_text(doc) ==
    <<IF "ocr" \in DOMAIN doc THEN doc["ocr"].ocr_text ELSE "",
      IF "ai" \in DOMAIN doc THEN doc["ai"] ELSE NoDoc>>

\* The vector vectorize_and_upsert sends for the drawing.
Vector(d) ==
    [id |-> d, values |-> build_search_text(drawings[d].extracted_json),
     company_id |-> drawings[d].company_id, drawing_id |-> d]

\* Mutant: the index keeps the vectors it has and adds the new one.
insert(index, d) == index \cup {Vector(d)}

\* index.upsert under the drawing id.
upsert(index, d) == {v \in index : v.id # d} \cup {Vector(d)}

\* Not configured, no company, no search text or no embedding: nothing is done.
VectorizeSkip ==
    /\ pc = "vectorize"
    /\ stagesRun' = stagesRun \cup {"vectorize"}
    /\ Return
    /\ UNCHANGED <<orchestratorState, drawings, files, vectors, stagesFailed>>

VectorizeUpsert ==
    /\ pc = "vectorize"
    /\ ReachesUpsert(D)
    /\ stagesRun' = stagesRun \cup {"vectorize"}
    /\ vectors' = upsert(vectors, D)
    /\ Return
    /\ UNCHANGED <<orchestratorState, drawings, files, stagesFailed>>

\* The read of the drawing row raises inside vectorize_drawing_for_search.
VectorizeReadRaises ==
    /\ pc = "vectorize"
    /\ stagesRun' = stagesRun \cup {"vectorize"}
    /\ stagesFailed' = stagesFailed \cup {"vectorize"}
    /\ Return
    /\ UNCHANGED <<orchestratorState, drawings, files, vectors>>

\* Mutant: the vectorize stage without its try/except.
UpsertFailurePropagates ==
    /\ stagesFailed' = stagesFailed \cup {"vectorize", "upsert"}
    /\ Propagate(UpsertError)

\* What process_drawing_job does with an exception of the upsert, which
\* vectorize_and_upsert logs and raises again.
UpsertFailure ==
    /\ stagesFailed' = stagesFailed \cup {"vectorize", "upsert"}
    /\ Return

VectorizeUpsertRaises ==
    /\ pc = "vectorize"
    /\ ReachesUpsert(D)
    /\ stagesRun' = stagesRun \cup {"vectorize"}
    /\ UpsertFailure
    /\ UNCHANGED <<orchestratorState, drawings, files, vectors>>

\* ------------------------------------------------- final status writes
\* Mutant: the success write without finished_at.
SuccessWriteNoFinish == update_job(job, "success", None, None, None, None)

\* _update_job(job_id, "success", finished_at=now()).
SuccessWrite == update_job(job, "success", None, None, None, Timestamp)

MarkSuccess ==
    /\ pc = "mark_success"
    /\ jobs' = SuccessWrite
    /\ pc' = After("sleep")
    /\ ResetLocals
    /\ UNCHANGED <<settings, drawings, files, vectors, stop>>

\* The success write raises inside the try block: the except clause takes it.
MarkSuccessFails ==
    /\ pc = "mark_success"
    /\ Propagate(JobStoreError)
    /\ UNCHANGED <<settings, jobs, drawings, files, vectors, stop, job, locals>>

\* Mutant: the error write without the message.
ErrorWriteNoMessage == update_job(job, "error", None, None, None, Timestamp)

\* _update_job(job_id, "error", error_message=str(e), finished_at=now()).
ErrorWrite == update_job(job, "error", None, exc, None, Timestamp)

MarkError ==
    /\ pc = "mark_error"
    /\ jobs' = ErrorWrite
    /\ pc' = After("sleep")
    /\ ResetLocals
    /\ UNCHANGED <<settings, drawings, files, vectors, stop>>

\* The error write raises: the exception escapes the cycle.
MarkErrorFails ==
    /\ pc = "mark_error"
    /\ pc' = After("sleep")
    /\ ResetLocals
    /\ UNCHANGED <<settings, jobs, drawings, files, vectors, stop>>

\* asyncio.wait_for(stop.wait(), timeout=interval) times out: next cycle.
Wake ==
    /\ pc = "sleep"
    /\ ~stop
    /\ pc' = "fetch"
    /\ UNCHANGED <<settings, jobs, drawings, files, vectors, stop, job, exc, locals>>

\* lifespan shutdown: stop.set() and poll_task.cancel().  The idle wait is
\* interrupted at once; a call already handed to a thread runs on, unless
\* the executor had not started it yet.
NotStartedPcs == {"fetch", "claim", "set_processing", "mark_success", "mark_error"}

Shutdown ==
    /\ ~stop
    /\ pc # "stopped"
    /\ stop' = TRUE
    /\ \/ pc' = IF pc = "sleep" THEN "stopped" ELSE pc
       \/ pc \in NotStartedPcs /\ pc' = "cancelled"
    /\ UNCHANGED <<settings, jobs, drawings, files, vectors, job, exc, locals>>

\* run_poll_loop: CancelledError at the await breaks the loop; the task ends.
Cancelled ==
    /\ pc = "cancelled"
    /\ pc' = "stopped"
    /\ ResetLocals
    /\ UNCHANGED <<settings, jobs, drawings, files, vectors, stop>>

Next ==
    \/ process_drawing /\ UNCHANGED ext
    \/ PollSkip /\ UNCHANGED ext
    \/ FetchJob /\ UNCHANGED ext
    \/ FetchNone /\ UNCHANGED ext
    \/ FetchRaises /\ UNCHANGED ext
    \/ Claim /\ UNCHANGED ext
    \/ ClaimFails /\ UNCHANGED ext
    \/ SetProcessing /\ UNCHANGED ext
    \/ SetProcessingRaises /\ UNCHANGED ext
    \/ LookupPdf /\ UNCHANGED ext
    \/ LookupPageImages /\ UNCHANGED ext
    \/ LookupNothing /\ UNCHANGED ext
    \/ LookupRaises /\ UNCHANGED ext
    \/ Rasterize /\ UNCHANGED ext
    \/ RasterizeNoCompany /\ UNCHANGED ext
    \/ RasterizeNoPages /\ UNCHANGED ext
    \/ RasterizeRaises /\ UNCHANGED ext
    \/ RasterizeRaisesMidway /\ UNCHANGED ext
    \/ Ocr /\ UNCHANGED ext
    \/ OcrRaises /\ UNCHANGED ext
    \/ OcrMergeRaises /\ UNCHANGED ext
    \/ Extract /\ UNCHANGED ext
    \/ ExtractRaises /\ UNCHANGED ext
    \/ ExtractSaveRaises /\ UNCHANGED ext
    \/ VectorizeSkip /\ UNCHANGED ext
    \/ VectorizeUpsert /\ UNCHANGED ext
    \/ VectorizeReadRaises /\ UNCHANGED ext
    \/ VectorizeUpsertRaises /\ UNCHANGED ext
    \/ MarkSuccess /\ UNCHANGED ext
    \/ MarkSuccessFails /\ UNCHANGED ext
    \/ MarkError /\ UNCHANGED ext
    \/ MarkErrorFails /\ UNCHANGED ext
    \/ Wake /\ UNCHANGED ext
    \/ Shutdown /\ UNCHANGED ext
    \/ Cancelled /\ UNCHANGED ext

Spec == Init /\ [][Next]_vars

\* The steps of the poll task: everything but a submission and the shutdown
\* request, which come from outside.
WorkerStep ==
    /\ \/ PollSkip \/ FetchJob \/ FetchNone \/ FetchRaises
       \/ Claim \/ ClaimFails
       \/ SetProcessing \/ SetProcessingRaises
       \/ LookupPdf \/ LookupPageImages \/ LookupNothing \/ LookupRaises
       \/ Rasterize \/ RasterizeNoCompany \/ RasterizeNoPages
       \/ RasterizeRaises \/ RasterizeRaisesMidway
       \/ Ocr \/ OcrRaises \/ OcrMergeRaises
       \/ Extract \/ ExtractRaises \/ ExtractSaveRaises
       \/ VectorizeSkip \/ VectorizeUpsert
       \/ VectorizeReadRaises \/ VectorizeUpsertRaises
       \/ MarkSuccess \/ MarkSuccessFails \/ MarkError \/ MarkErrorFails
       \/ Wake \/ Cancelled
    /\ UNCHANGED ext

\* The event loop keeps running the poll task while it has a step to take:
\* every awaited call returns or raises, and the sleep times out.
SpecLive == Spec /\ WF_vars(WorkerStep)

\* ------------------------------------------- two worker processes
\* A second process runs the same lifespan and run_poll_loop against the
\* same store.  The variables stop, pc, job, exc and the logs are those of
\* the process that takes the next step; other holds those of the process
\* that waits.
Worker ==
    [stop |-> stop, pc |-> pc, job |-> job, exc |-> exc,
     stagesRun |-> stagesRun, stagesFailed |-> stagesFailed]

\* A process after its startup.
FreshWorker ==
    [stop |-> FALSE, pc |-> "fetch", job |-> NoJob, exc |-> NoExc,
     stagesRun |-> {}, stagesFailed |-> {}]

\* The scheduler lets the other process take the next steps.
Switch ==
    /\ other # NoWorker
    /\ other' = Worker
    /\ stop' = other.stop
    /\ pc' = other.pc
    /\ job' = other.job
    /\ exc' = other.exc
    /\ stagesRun' = other.stagesRun
    /\ stagesFailed' = other.stagesFailed
    /\ UNCHANGED <<settings, jobs, drawings, files, vectors, units>>

\* Both processes are configured for the same store.
InitTwoWorkers ==
    /\ settings = [supabase |-> TRUE]
    /\ jobs = <<>>
    /\ drawings \in InitDrawings
    /\ files \in InitFileIndex
    /\ vectors = {}
    /\ stop = FALSE
    /\ pc = "fetch"
    /\ job = NoJob
    /\ exc = NoExc
    /\ stagesRun = {}
    /\ stagesFailed = {}
    /\ other = FreshWorker
    /\ cascade = NoCascade
    /\ ocrRun = NoOcrRun
    /\ rules = NoRules
    /\ norm = NoNorm

\* The steps of either process while every call to the stores and services
\* returns and neither process is shut down.
NextTwoWorkers ==
    \/ process_drawing /\ UNCHANGED units /\ other' = other
    \/ FetchJob /\ UNCHANGED units /\ other' = other
    \/ FetchNone /\ UNCHANGED units /\ other' = other
    \/ Claim /\ UNCHANGED units /\ other' = other
    \/ SetProcessing /\ UNCHANGED units /\ other' = other
    \/ LookupPdf /\ UNCHANGED units /\ other' = other
    \/ LookupPageImages /\ UNCHANGED units /\ other' = other
    \/ LookupNothing /\ UNCHANGED units /\ other' = other
    \/ Rasterize /\ UNCHANGED units /\ other' = other
    \/ RasterizeNoCompany /\ UNCHANGED units /\ other' = other
    \/ RasterizeNoPages /\ UNCHANGED units /\ other' = other
    \/ Ocr /\ UNCHANGED units /\ other' = other
    \/ Extract /\ UNCHANGED units /\ other' = other
    \/ VectorizeSkip /\ UNCHANGED units /\ other' = other
    \/ VectorizeUpsert /\ UNCHANGED units /\ other' = other
    \/ MarkSuccess /\ UNCHANGED units /\ other' = other
    \/ MarkError /\ UNCHANGED units /\ other' = other
    \/ Wake /\ UNCHANGED units /\ other' = other
    \/ Switch

SpecTwoWorkers == InitTwoWorkers /\ [][NextTwoWorkers]_vars

\* ------------------------------------------------------- rule engine
\* _extract_by_rules starts from this record.
EmptyRuleRecord ==
    [title |-> None, drawing_no |-> None, part_name |-> None,
     material |-> None, surface_treatment |-> None, process_note |-> None,
     issue_date |-> None, tags |-> EmptyList]

\* _extract_by_rules over the lines of a text (ocr_text.splitlines()).  The
\* labels and terms are written in Latin letters.
KNOWN_LABELS ==
    {"meisho", "hinmei", "zaishitsu", "hyomenshori", "zuban", "netsushori",
     "shorishiji", "yoshi", "shakudo", "sakuseisha", "kakuninsha",
     "shoninsha", "buhinzu", "kumitatezu"}

LABEL_TO_KEY ==
    [meisho |-> "part_name", hinmei |-> "part_name", zaishitsu |-> "material",
     hyomenshori |-> "surface_treatment", zuban |-> "drawing_no",
     netsushori |-> "process_note", shorishiji |-> "process_note",
     shutsuzubi |-> "issue_date", buhinzu |-> "title", kumitatezu |-> "title"]

SURFACE_OR_MATERIAL_TERMS ==
    {"sanarai", "denchakutoso", "kurozome", "bafukenma", "mushori", "mekki",
     "kenma", "toso", "kuromeito", "arumaito", "rinsanenshori"}

NON_DRAWING_NO_TERMS == {"IC", "IA", "IB", "A", "B", "A3", "A4", "1/1"}

\* str.strip() and str.lstrip("|").
RECURSIVE LStrip(_, _)
LStrip(cs, c) ==
    IF cs # <<>> /\ Head(cs) = c THEN LStrip(Tail(cs), c) ELSE cs

RECURSIVE RStrip(_, _)
RStrip(cs, c) ==
    IF cs # <<>> /\ cs[Len(cs)] = c THEN RStrip(SubSeq(cs, 1, Len(cs) - 1), c)
    ELSE cs

Strip(v) == Text(RStrip(LStrip(Chars(v), " "), " "))

\* _PAGE_SEP_PATTERN.match: "[", the page word, spaces, digits, "]".
PAGE_SEP_PATTERN(cs) ==
    /\ Len(cs) >= 4
    /\ cs[1] = "["
    /\ cs[2] = "page"
    /\ cs[Len(cs)] = "]"
    /\ \E k \in 3..(Len(cs) - 1) :
          /\ \A j \in 3..(k - 1) : cs[j] = " "
          /\ \A j \in k..(Len(cs) - 1) : IsDigit(cs[j])

\* \d{4}-\d{4} at position i.
DrawingNoAt(cs, i) ==
    /\ i + 8 <= Len(cs)
    /\ AllDigits(SubSeq(cs, i, i + 3))
    /\ cs[i + 4] = "-"
    /\ AllDigits(SubSeq(cs, i + 5, i + 8))

\* _DRAWING_NO_PATTERN.match(value): at the start of the value.
DRAWING_NO_PATTERN(v) == DrawingNoAt(Chars(v), 1)

HasDrawingNo(v) == \E i \in 1..Len(Chars(v)) : DrawingNoAt(Chars(v), i)

\* _DRAWING_NO_PATTERN.search(ocr_text).group(0): the leftmost match of the
\* first line that has one; None without a match.
SearchDrawingNo(raw) ==
    LET with == {k \in 1..Len(raw) : HasDrawingNo(raw[k])}
    IN IF with = {} THEN None
       ELSE LET k == CHOOSE k \in with : \A m \in with : k <= m
                cs == Chars(raw[k])
                at == {i \in 1..Len(cs) : DrawingNoAt(cs, i)}
                i == CHOOSE i \in at : \A m \in at : i <= m
            IN Text(SubSeq(cs, i, i + 8))

\* lines = [line.strip() for line in ocr_text.splitlines() if line.strip()].
StrippedLines(raw) ==
    LET stripped == [k \in 1..Len(raw) |-> Strip(raw[k])]
    IN SelectSeq(stripped, LAMBDA line : line # "")

ValueNext(lines, i) ==
    IF i + 1 <= Len(lines) /\ lines[i + 1] \notin KNOWN_LABELS
        THEN lines[i + 1] ELSE None

ValuePrev(lines, i) ==
    IF i - 1 >= 1 /\ lines[i - 1] \notin KNOWN_LABELS
        THEN lines[i - 1] ELSE None

\* Mutant: label lines are not skipped.
NoFirstNonLabel(lines, i) == None

ValueFirstNonLabel(lines, i) ==
    LET after == {j \in (i + 1)..Len(lines) : lines[j] \notin KNOWN_LABELS}
    IN IF after = {} THEN None
       ELSE lines[CHOOSE j \in after : \A m \in after : j <= m]

\* Mutant: the line before the label is preferred to the line after it.
PrevBeforeNext(lines, i, out_key) ==
    IF ValuePrev(lines, i) # None THEN ValuePrev(lines, i)
    ELSE ValueNext(lines, i)

\* Mutant: the line after the label whatever it is, else the line before.
NextElsePrev(lines, i, out_key) ==
    IF ValueNext(lines, i) # None THEN ValueNext(lines, i)
    ELSE ValuePrev(lines, i)

\* The candidate value of the label at line i.
Candidate(lines, i, out_key) ==
    LET value_next == ValueNext(lines, i)
        value_prev == ValuePrev(lines, i)
    IN IF out_key \in {"part_name", "title"}
           THEN IF value_next # None /\ value_next \in SURFACE_OR_MATERIAL_TERMS
                    THEN IF value_prev # None THEN value_prev ELSE value_next
                    ELSE IF value_next # None THEN value_next ELSE value_prev
           ELSE LET value == IF value_next # None THEN value_next
                             ELSE ValueFirstNonLabel(lines, i)
                IN IF value = None THEN value_prev ELSE value

\* Mutant: a page marker is kept as a value.
KeepPageMarker(value) ==
    IF Falsy(value) THEN value
    ELSE Text(RStrip(LStrip(LStrip(Chars(value), "|"), " "), " "))

\* value.lstrip("|").strip(), and None for a page marker.
Cleaned(value) ==
    IF Falsy(value) THEN value
    ELSE LET v == Text(RStrip(LStrip(LStrip(Chars(value), "|"), " "), " "))
         IN IF PAGE_SEP_PATTERN(Chars(v)) THEN None ELSE v

\* Mutant: a process note is kept although it repeats the material.
AdmittedAsNote(value, out_key, result) ==
    IF /\ ~Falsy(value)
       /\ \/ /\ out_key \in {"part_name", "title"}
             /\ value \in SURFACE_OR_MATERIAL_TERMS \/ DRAWING_NO_PATTERN(value)
          \/ out_key = "drawing_no" /\ value \in NON_DRAWING_NO_TERMS
        THEN None ELSE value

\* The checks that drop a value for the key it would go to.
Admitted(value, out_key, result) ==
    LET v1 == IF /\ ~Falsy(value)
                 /\ out_key \in {"part_name", "title"}
                 /\ \/ value \in SURFACE_OR_MATERIAL_TERMS
                    \/ DRAWING_NO_PATTERN(value)
                  THEN None ELSE value
        v2 == IF ~Falsy(v1) /\ out_key = "drawing_no" /\ v1 \in NON_DRAWING_NO_TERMS
                  THEN None ELSE v1
    IN IF ~Falsy(v2) /\ out_key = "process_note" /\ v2 = result.material
           THEN None ELSE v2

\* Mutant: the cleaned candidate is stored without the checks for its key.
LabelStepUnchecked(lines, i, result) ==
    LET out_key == LABEL_TO_KEY[lines[i]]
        value == Cleaned(Candidate(lines, i, out_key))
    IN IF Falsy(value) \/ out_key = "issue_date" THEN result
       ELSE [result EXCEPT ![out_key] = value]

\* One iteration of the loop over the lines for a label that has a key.
LabelStep(lines, i, result) ==
    LET out_key == LABEL_TO_KEY[lines[i]]
        value == Admitted(Cleaned(Candidate(lines, i, out_key)), out_key, result)
    IN IF Falsy(value) THEN result
       ELSE IF out_key \in {"part_name", "material", "surface_treatment",
                           "process_note", "drawing_no", "title"}
           THEN [result EXCEPT ![out_key] = value]
       ELSE IF out_key = "issue_date" /\ RuleKeepsDate(Chars(value))
           THEN [result EXCEPT ![out_key] = value]
       ELSE result

\* Mutant: the drawing number found by the pattern replaces any value.
RegexStepAlways(raw, result) ==
    IF SearchDrawingNo(raw) # None
        THEN [result EXCEPT !.drawing_no = SearchDrawingNo(raw)]
        ELSE result

\* The drawing number found by the pattern replaces a value that does not
\* start with one.
RegexStep(raw, result) ==
    LET candidate == SearchDrawingNo(raw)
        current == result.drawing_no
    IN IF candidate # None /\ (Falsy(current) \/ ~DRAWING_NO_PATTERN(current))
           THEN [result EXCEPT !.drawing_no = candidate]
           ELSE result

HasKey(line) == line \in KNOWN_LABELS /\ line \in DOMAIN LABEL_TO_KEY

\* The loop over the lines from line i on.
RECURSIVE LinesFrom(_, _, _)
LinesFrom(lines, i, result) ==
    IF i > Len(lines) THEN result
    ELSE LinesFrom(lines, i + 1,
                   IF HasKey(lines[i]) THEN LabelStep(lines, i, result)
                   ELSE result)

\* _extract_by_rules as a whole.
extract_by_rules(raw) ==
    IF StrippedLines(raw) = <<>> THEN EmptyRuleRecord
    ELSE RegexStep(raw, LinesFrom(StrippedLines(raw), 1, EmptyRuleRecord))

\* The lines the texts are made of; the example of the title block.
RawLines ==
    {"meisho", "zaishitsu", "netsushori", "zuban", "yoshi", "shutsuzubi",
     "baseplate", "| SS400", "kurozome", "2509-0017", "No.2509-0017",
     "|[page 1]", "[page 1]", "IC", " ", "2024-01-05", "2509-0017-A",
     "buhinzu"}

TitleBlock ==
    <<"meisho", "baseplate", "zaishitsu", "netsushori", "SS400", "hyomenshori",
      "kurozome", "zuban", "2509-0017", "hinmei", "baseplate">>

RECURSIVE SeqsUpTo(_, _)
SeqsUpTo(S, n) ==
    IF n = 0 THEN {<<>>}
    ELSE LET shorter == SeqsUpTo(S, n - 1)
         IN shorter \cup {Append(q, x) : q \in shorter, x \in S}

rulesFrame ==
    <<settings, jobs, drawings, files, vectors, stop, pc, job, exc, stagesRun,
      stagesFailed, other, cascade, ocrRun, norm>>

InitRules ==
    /\ settings = [supabase |-> TRUE]
    /\ jobs = <<>>
    /\ drawings = [d \in Drawings |-> InitDrawing("c1")]
    /\ files = [d \in Drawings |-> InitFiles(FALSE, 0, 0)]
    /\ vectors = {}
    /\ stop = FALSE
    /\ pc = "fetch"
    /\ job = NoJob
    /\ exc = NoExc
    /\ stagesRun = {}
    /\ stagesFailed = {}
    /\ other = NoWorker
    /\ cascade = NoCascade
    /\ ocrRun = NoOcrRun
    /\ norm = NoNorm
    /\ \E raw \in SeqsUpTo(RawLines, MaxLines) \cup {TitleBlock} :
          rules = [pc |-> "split", raw |-> raw, lines |-> <<>>, i |-> 0,
                   result |-> EmptyRuleRecord]

\* No text, or only blank lines: the record as it was initialized.
RulesNoLines ==
    /\ rules.pc = "split"
    /\ StrippedLines(rules.raw) = <<>>
    /\ rules' = [rules EXCEPT !.pc = "done"]
    /\ UNCHANGED rulesFrame

RulesSplit ==
    /\ rules.pc = "split"
    /\ StrippedLines(rules.raw) # <<>>
    /\ rules' = [rules EXCEPT
                   !.pc = "loop", !.lines = StrippedLines(rules.raw), !.i = 1]
    /\ UNCHANGED rulesFrame

\* "continue": the line is no known label, or a label without a key.
RulesSkipLine ==
    /\ rules.pc = "loop"
    /\ rules.i <= Len(rules.lines)
    /\ ~HasKey(rules.lines[rules.i])
    /\ rules' = [rules EXCEPT !.i = @ + 1]
    /\ UNCHANGED rulesFrame

RulesLabelLine ==
    /\ rules.pc = "loop"
    /\ rules.i <= Len(rules.lines)
    /\ HasKey(rules.lines[rules.i])
    /\ rules' = [rules EXCEPT
                   !.i = @ + 1,
                   !.result = LabelStep(rules.lines, rules.i, rules.result)]
    /\ UNCHANGED rulesFrame

RulesRegex ==
    /\ rules.pc = "loop"
    /\ rules.i > Len(rules.lines)
    /\ rules' = [rules EXCEPT
                   !.pc = "done",
                   !.result = RegexStep(rules.raw, rules.result)]
    /\ UNCHANGED rulesFrame

NextRules ==
    \/ RulesNoLines
    \/ RulesSplit
    \/ RulesSkipLine
    \/ RulesLabelLine
    \/ RulesRegex

SpecRules == InitRules /\ [][NextRules]_vars

\* ------------------------------------------------- extraction cascade
\* process_ai_extraction_for_drawing for drawing d1, step by step, and the
\* extract stage's use of what it returns. The pipeline's own variables
\* stand still.
pipeline ==
    <<settings, jobs, files, vectors, stop, pc, job, exc, stagesRun,
      stagesFailed, other, ocrRun, rules, norm>>

\* What _extract_by_rules returns for some first-page texts: no label, a
\* part name, an issue date after its label (which is no known label).
FirstPageTexts ==
    {<<"yoshi", "A3">>, <<"meisho", "plate">>, <<"shutsuzubi", "2024-01-05">>,
     <<"shutsuzubi", "2024/01/05">>}

RuleRecords == {extract_by_rules(raw) : raw \in FirstPageTexts}

\* What extract_drawing_fields gets out of json.loads when the model answers
\* with a JSON object; every other answer ends in {}.
ModelAnswers ==
    {[title |-> None, part_name |-> ""], [tags |-> TagList]}
    \cup {[part_name |-> "plate", issue_date |-> v] : v \in {None} \cup DateTexts}
    \cup {[hinmei |-> "plate", shutsuzubi |-> "2024/01/05"]}
    \cup {[issue_date |-> "2024/01/05"]}

\* The first page_image row of the drawing: none, one without gcs_path, one
\* whose download fails (get_image_bytes_from_gcs returns None), one that
\* downloads.
PageImageStates == {"none", "no_path", "unreadable", "readable"}

\* The row before the stage: after OCR with or without text, and possibly
\* with the result of an earlier extraction.
CascadeRows ==
    {[InitDrawing("c1") EXCEPT
         !.columns = c,
         !.extracted_json =
             IF c = NoColumns THEN [ocr |-> [ocr_text |-> t, pages |-> 1]]
             ELSE [ocr |-> [ocr_text |-> t, pages |-> 1], ai |-> c]] :
        t \in {"", "text"}, c \in {NoColumns, [part_name |-> "old"]}}

InitCascade ==
    /\ settings = [supabase |-> TRUE]
    /\ jobs = <<>>
    /\ \E row \in CascadeRows :
          drawings = [d \in Drawings |-> IF d = "d1" THEN row ELSE InitDrawing("c1")]
    /\ files = [d \in Drawings |-> InitFiles(FALSE, 0, 0)]
    /\ vectors = {}
    /\ stop = FALSE
    /\ pc = "fetch"
    /\ job = NoJob
    /\ exc = NoExc
    /\ stagesRun = {}
    /\ stagesFailed = {}
    /\ other = NoWorker
    /\ ocrRun = NoOcrRun
    /\ rules = NoRules
    /\ norm = NoNorm
    /\ \E rule \in RuleRecords, image \in PageImageStates,
          key \in BOOLEAN, answer \in {NoResult} \cup ModelAnswers :
          cascade = [pc |-> "read", rule_result |-> rule, page_image |-> image,
                     api_key |-> key, answer |-> answer, calls |-> <<>>,
                     model_calls |-> 0, ai_result |-> NoResult,
                     result |-> NoResult]

Call(name) == Append(cascade.calls, name)

\* Mutant: without stored OCR text the cascade goes on to the rule engine.
CascadeNoOcrTextGoesOn ==
    /\ cascade.pc = "read"
    /\ StoredOcrText("d1") = ""
    /\ cascade' = [cascade EXCEPT !.pc = "rules"]
    /\ UNCHANGED <<pipeline, drawings>>

\* "if not ocr_text: return {}".
CascadeNoOcrText ==
    /\ cascade.pc = "read"
    /\ StoredOcrText("d1") = ""
    /\ cascade' = [cascade EXCEPT !.pc = "save", !.result = NoResult]
    /\ UNCHANGED <<pipeline, drawings>>

CascadeReadOcrText ==
    /\ cascade.pc = "read"
    /\ StoredOcrText("d1") # ""
    /\ cascade' = [cascade EXCEPT !.pc = "rules"]
    /\ UNCHANGED <<pipeline, drawings>>

\* Mutant: the rule record is returned only after the page image was fetched.
CascadeRulesReturnAfterFetch ==
    /\ cascade.pc = "rules"
    /\ has_any_extracted_value(cascade.rule_result)
    /\ cascade' = [cascade EXCEPT
                      !.pc = "save",
                      !.calls = Call("_extract_by_rules")
                                   \o <<"page_images", "get_image_bytes_from_gcs">>,
                      !.result = ValidateIssueDate(cascade.rule_result)]
    /\ UNCHANGED <<pipeline, drawings>>

\* The rule record has a value: its date is checked and it is returned.
CascadeRulesReturn ==
    /\ cascade.pc = "rules"
    /\ has_any_extracted_value(cascade.rule_result)
    /\ cascade' = [cascade EXCEPT
                      !.pc = "save",
                      !.calls = Call("_extract_by_rules"),
                      !.result = ValidateIssueDate(cascade.rule_result)]
    /\ UNCHANGED <<pipeline, drawings>>

CascadeRulesEmpty ==
    /\ cascade.pc = "rules"
    /\ ~has_any_extracted_value(cascade.rule_result)
    /\ cascade' = [cascade EXCEPT !.pc = "image", !.calls = Call("_extract_by_rules")]
    /\ UNCHANGED <<pipeline, drawings>>

\* No page_image row, or one without gcs_path: straight to text-only.
CascadeNoPageImage ==
    /\ cascade.pc = "image"
    /\ cascade.page_image \in {"none", "no_path"}
    /\ cascade' = [cascade EXCEPT !.pc = "text", !.calls = Call("page_images")]
    /\ UNCHANGED <<pipeline, drawings>>

\* Mutant: a failed download ends the cascade with an exception.
CascadeImageUnreadableRaises ==
    /\ cascade.pc = "image"
    /\ cascade.page_image = "unreadable"
    /\ cascade' = [cascade EXCEPT
                      !.pc = "raised",
                      !.calls = Call("page_images") \o <<"get_image_bytes_from_gcs">>]
    /\ UNCHANGED <<pipeline, drawings>>

\* get_image_bytes_from_gcs returns None: "if image_bytes" is false.
CascadeImageUnreadable ==
    /\ cascade.pc = "image"
    /\ cascade.page_image = "unreadable"
    /\ cascade' = [cascade EXCEPT
                      !.pc = "text",
                      !.calls = Call("page_images") \o <<"get_image_bytes_from_gcs">>]
    /\ UNCHANGED <<pipeline, drawings>>

\* Mutant: the image is downloaded and text-only extraction is tried first.
CascadeImageReadSkipsMultimodal ==
    /\ cascade.pc = "image"
    /\ cascade.page_image = "readable"
    /\ cascade' = [cascade EXCEPT
                      !.pc = "text",
                      !.calls = Call("page_images") \o <<"get_image_bytes_from_gcs">>]
    /\ UNCHANGED <<pipeline, drawings>>

CascadeImageRead ==
    /\ cascade.pc = "image"
    /\ cascade.page_image = "readable"
    /\ cascade' = [cascade EXCEPT
                      !.pc = "multimodal",
                      !.calls = Call("page_images") \o <<"get_image_bytes_from_gcs">>]
    /\ UNCHANGED <<pipeline, drawings>>

\* extract_drawing_fields_multimodal: {} without an API key; with one,
\* prompt.format(ocr_text=...) meets the field "{ocr_text[:8000]}" of the
\* prompt and raises TypeError inside the try, whose handler returns {}.
\* generate_content is never reached.
extract_drawing_fields_multimodal(api_key) ==
    IF ~api_key THEN NoResult ELSE NoResult

CascadeMultimodal ==
    /\ cascade.pc = "multimodal"
    /\ cascade' = [cascade EXCEPT
                      !.pc = "text",
                      !.calls = Call("extract_drawing_fields_multimodal"),
                      !.ai_result = extract_drawing_fields_multimodal(cascade.api_key)]
    /\ UNCHANGED <<pipeline, drawings>>

\* "not ai_result or not _has_any_extracted_value(ai_result)".
Unusable(ai_result) ==
    ai_result = NoResult \/ ~has_any_extracted_value(ai_result)

\* extract_drawing_fields: {} without an API key, else one generate_content
\* call and its answer.
CascadeTextOnly ==
    /\ cascade.pc = "text"
    /\ cascade' =
          IF Unusable(cascade.ai_result)
              THEN [cascade EXCEPT
                      !.pc = "check",
                      !.calls = Call("extract_drawing_fields"),
                      !.model_calls = IF cascade.api_key THEN @ + 1 ELSE @,
                      !.ai_result = IF cascade.api_key THEN cascade.answer
                                    ELSE NoResult]
              ELSE [cascade EXCEPT !.pc = "check"]
    /\ UNCHANGED <<pipeline, drawings>>

\* No usable values: return {}.
CascadeReturnEmpty ==
    /\ cascade.pc = "check"
    /\ Unusable(cascade.ai_result)
    /\ cascade' = [cascade EXCEPT !.pc = "save", !.result = NoResult]
    /\ UNCHANGED <<pipeline, drawings>>

CascadeReturnAi ==
    /\ cascade.pc = "check"
    /\ ~Unusable(cascade.ai_result)
    /\ cascade' = [cascade EXCEPT
                      !.pc = "save",
                      !.result = ValidateIssueDate(cascade.ai_result)]
    /\ UNCHANGED <<pipeline, drawings>>

\* Mutant: the stage saves whatever the cascade returned.
StageSavesAlways ==
    /\ cascade.pc = "save"
    /\ cascade.result = NoResult
    /\ cascade' = [cascade EXCEPT !.pc = "done"]
    /\ drawings' = [drawings EXCEPT
                       !["d1"] = save_extracted_fields_to_drawing(@, cascade.result)]
    /\ UNCHANGED pipeline

\* The extract stage: "if ai_result" is false for {}.
StageSavesNothing ==
    /\ cascade.pc = "save"
    /\ cascade.result = NoResult
    /\ cascade' = [cascade EXCEPT !.pc = "done"]
    /\ UNCHANGED <<pipeline, drawings>>

StageSaves ==
    /\ cascade.pc = "save"
    /\ cascade.result # NoResult
    /\ cascade' = [cascade EXCEPT !.pc = "done"]
    /\ drawings' = [drawings EXCEPT
                       !["d1"] = save_extracted_fields_to_drawing(@, cascade.result)]
    /\ UNCHANGED pipeline

\* The update of the row fails; the stage logs it.
StageSaveRaises ==
    /\ cascade.pc = "save"
    /\ cascade.result # NoResult
    /\ cascade' = [cascade EXCEPT !.pc = "failed"]
    /\ UNCHANGED <<pipeline, drawings>>

NextCascade ==
    \/ CascadeNoOcrText
    \/ CascadeReadOcrText
    \/ CascadeRulesReturn
    \/ CascadeRulesEmpty
    \/ CascadeNoPageImage
    \/ CascadeImageUnreadable
    \/ CascadeImageRead
    \/ CascadeMultimodal
    \/ CascadeTextOnly
    \/ CascadeReturnEmpty
    \/ CascadeReturnAi
    \/ StageSavesNothing
    \/ StageSaves
    \/ StageSaveRaises

SpecCascade == InitCascade /\ [][NextCascade]_vars

\* ------------------------------------------------------ OCR of a drawing
\* process_ocr_for_drawing, step by step, over the page_image rows of one
\* drawing (page_no = position in the ordered query) and the ocr_tokens
\* table.  Everything else stands still.
ocrFrame ==
    <<settings, jobs, drawings, files, vectors, stop, pc, job, exc, stagesRun,
      stagesFailed, other, cascade, rules, norm>>

\* f"[ページ {page_no}]": the marker put before a page's text.
PageMarker(page_no) ==
    CASE page_no = 1 -> "[page 1]"
      [] page_no = 2 -> "[page 2]"
      [] page_no = 3 -> "[page 3]"
      [] OTHER -> "[page n]"

\* "\n\n".join(all_texts), each entry being marker, newline, text.
RECURSIVE JoinTexts(_)
JoinTexts(all_texts) ==
    IF all_texts = <<>> THEN <<>>
    ELSE <<PageMarker(Head(all_texts).page_no), "\n", Head(all_texts).text>>
         \o (IF Len(all_texts) = 1 THEN <<>>
             ELSE <<"\n\n">> \o JoinTexts(Tail(all_texts)))

\* The words of a page, as many as were recognized.
Words(n) == [k \in 1..n |-> IF k = 1 THEN "w1" ELSE IF k = 2 THEN "w2" ELSE "w3"]

\* What extract_text_with_coordinates returns: text with its words, or empty
\* text without tokens (nothing on the page, an API error, an exception).
Recognitions ==
    {[text |-> "", tokens |-> <<>>, downloaded |-> TRUE]}
    \cup {[text |-> "abc", tokens |-> Words(n), downloaded |-> TRUE] :
             n \in 0..MaxTokens}

\* A page whose image could not be downloaded.
NotDownloaded == [text |-> "", tokens |-> <<>>, downloaded |-> FALSE]

\* A row of ocr_tokens of a page: the run that inserted it and its text.
TokenRow(run, text) == [run |-> run, text |-> text]

\* The table before the run: per page nothing, or what an earlier run left.
EarlierTokens == {{}, {TokenRow("earlier", "w1"), TokenRow("earlier", "w0")}}

InitOcr ==
    /\ settings = [supabase |-> TRUE]
    /\ jobs = <<>>
    /\ drawings = [d \in Drawings |-> InitDrawing("c1")]
    /\ files = [d \in Drawings |-> InitFiles(FALSE, 0, 0)]
    /\ vectors = {}
    /\ stop = FALSE
    /\ pc = "fetch"
    /\ job = NoJob
    /\ exc = NoExc
    /\ stagesRun = {}
    /\ stagesFailed = {}
    /\ other = NoWorker
    /\ cascade = NoCascade
    /\ rules = NoRules
    /\ norm = NoNorm
    /\ \E n \in 0..OcrPages, store \in [1..OcrPages -> EarlierTokens] :
          ocrRun = [pc |-> "query", n |-> n, i |-> 0, pages |-> <<>>,
                    all_texts |-> <<>>, result |-> NoResult,
                    recognized |-> <<>>, next |-> 0, ocr_tokens |-> store,
                    db_failed |-> {}, persisted |-> {}]

\* No page_image rows: the empty result, nothing else done.
OcrNoPageImages ==
    /\ ocrRun.pc = "query"
    /\ ocrRun.n = 0
    /\ ocrRun' = [ocrRun EXCEPT
                    !.pc = "done",
                    !.result = [ocr_text |-> <<>>, pages |-> <<>>]]
    /\ UNCHANGED ocrFrame

OcrFirstPage ==
    /\ ocrRun.pc = "query"
    /\ ocrRun.n > 0
    /\ ocrRun' = [ocrRun EXCEPT !.pc = "download", !.i = 1]
    /\ UNCHANGED ocrFrame

\* End of a loop iteration: the next page, or the join after the last.
AfterPage(run) ==
    IF run.i < run.n
        THEN [run EXCEPT !.pc = "download", !.i = @ + 1]
        ELSE [run EXCEPT !.pc = "join"]

\* Mutant: a page that fails ends the loop.
OcrPageFailsStops ==
    /\ ocrRun.pc = "download"
    /\ ocrRun' = [ocrRun EXCEPT !.pc = "join"]
    /\ UNCHANGED ocrFrame

\* _download_image_from_gcs raises: the outer handler records an empty page.
OcrPageFails ==
    /\ ocrRun.pc = "download"
    /\ ocrRun' = AfterPage([ocrRun EXCEPT
                              !.pages = Append(@, [page_no |-> ocrRun.i, text |-> ""]),
                              !.recognized = Append(@, NotDownloaded)])
    /\ UNCHANGED ocrFrame

OcrDownload ==
    /\ ocrRun.pc = "download"
    /\ ocrRun' = [ocrRun EXCEPT !.pc = "recognize"]
    /\ UNCHANGED ocrFrame

\* The page's text goes on pages, and on all_texts when not empty, before
\* anything is written to the store.
OcrRecognize ==
    /\ ocrRun.pc = "recognize"
    /\ \E r \in Recognitions :
          ocrRun' = [ocrRun EXCEPT
                       !.pc = "update_dims",
                       !.recognized = Append(@, r),
                       !.pages = Append(@, [page_no |-> ocrRun.i, text |-> r.text]),
                       !.all_texts = IF r.text # ""
                                         THEN Append(@, [page_no |-> ocrRun.i,
                                                         text |-> r.text])
                                         ELSE @]
    /\ UNCHANGED ocrFrame

\* Mutant: a failing store call reaches the outer handler, which takes the
\* page's text back and records an empty page.
DbFailureDropsText(run, call) ==
    AfterPage([run EXCEPT
                 !.db_failed = @ \cup {<<run.i, call>>},
                 !.pages = Append(SubSeq(@, 1, Len(@) - 1),
                                  [page_no |-> run.i, text |-> ""]),
                 !.all_texts = SelectSeq(@, LAMBDA e : e.page_no # run.i)])

\* A store call in the inner try raises: logged, on to the next page.
DbFailure(run, call) == AfterPage([run EXCEPT !.db_failed = @ \cup {<<run.i, call>>}])

OcrUpdateDims ==
    /\ ocrRun.pc = "update_dims"
    /\ ocrRun' = [ocrRun EXCEPT !.pc = "delete"]
    /\ UNCHANGED ocrFrame

OcrUpdateDimsFails ==
    /\ ocrRun.pc = "update_dims"
    /\ ocrRun' = DbFailure(ocrRun, "update")
    /\ UNCHANGED ocrFrame

Tokens(run) == run.recognized[Len(run.recognized)].tokens

\* Mutant: the page's rows are left in place before the inserts.
DeleteNothing(run) == run.ocr_tokens

\* ocr_tokens.delete().eq("page_file_id", ...).
DeletePageTokens(run) == [run.ocr_tokens EXCEPT ![run.i] = {}]

OcrDeleteTokens ==
    /\ ocrRun.pc = "delete"
    /\ ocrRun' =
          LET deleted == [ocrRun EXCEPT !.ocr_tokens = DeletePageTokens(ocrRun)]
          IN IF Tokens(ocrRun) = <<>>
                 THEN AfterPage([deleted EXCEPT !.persisted = @ \cup {ocrRun.i}])
                 ELSE [deleted EXCEPT !.pc = "insert", !.next = 1]
    /\ UNCHANGED ocrFrame

OcrDeleteFails ==
    /\ ocrRun.pc = "delete"
    /\ ocrRun' = DbFailure(ocrRun, "delete")
    /\ UNCHANGED ocrFrame

\* One batch of token_records[i : i + batch_size] is inserted.
OcrInsertBatch ==
    /\ ocrRun.pc = "insert"
    /\ LET tokens == Tokens(ocrRun)
           last == IF ocrRun.next + BatchSize - 1 < Len(tokens)
                       THEN ocrRun.next + BatchSize - 1 ELSE Len(tokens)
           batch == {TokenRow("this", tokens[k]) : k \in ocrRun.next..last}
           inserted == [ocrRun EXCEPT !.ocr_tokens[ocrRun.i] = @ \cup batch]
       IN ocrRun' =
             IF last < Len(tokens)
                 THEN [inserted EXCEPT !.next = last + 1]
                 ELSE AfterPage([inserted EXCEPT !.persisted = @ \cup {ocrRun.i}])
    /\ UNCHANGED ocrFrame

OcrInsertFails ==
    /\ ocrRun.pc = "insert"
    /\ ocrRun' = DbFailure(ocrRun, "insert")
    /\ UNCHANGED ocrFrame

OcrReturn ==
    /\ ocrRun.pc = "join"
    /\ ocrRun' = [ocrRun EXCEPT
                    !.pc = "done",
                    !.result = [ocr_text |-> JoinTexts(ocrRun.all_texts),
                                pages |-> ocrRun.pages]]
    /\ UNCHANGED ocrFrame

NextOcr ==
    \/ OcrNoPageImages
    \/ OcrFirstPage
    \/ OcrPageFails
    \/ OcrDownload
    \/ OcrRecognize
    \/ OcrUpdateDims
    \/ OcrUpdateDimsFails
    \/ OcrDeleteTokens
    \/ OcrDeleteFails
    \/ OcrInsertBatch
    \/ OcrInsertFails
    \/ OcrReturn

SpecOcr == InitOcr /\ [][NextOcr]_vars

\* ------------------------------------------- _normalize_ai_result
\* One call of _normalize_ai_result, key by key.
normFrame ==
    <<settings, jobs, drawings, files, vectors, stop, pc, job, exc, stagesRun,
      stagesFailed, other, cascade, ocrRun, rules>>

\* column_keys, in the order of the loop.
column_keys ==
    <<"title", "drawing_no", "part_name", "material", "surface_treatment",
      "process_note", "issue_date", "tags">>

\* A key the dict does not have.
Absent == "absent"

\* The dict with the keys of f that are not marked absent.
Dict(f) == [k \in {k \in DOMAIN f : f[k] # Absent} |-> f[k]]

\* Results as the cascade returns them: canonical and aliased keys, each
\* absent, null, empty or with a value; tags also as an empty list and as a
\* text.
AiResults ==
    {Dict(f) : f \in [part_name : {Absent, None, "", "plate"},
                      hinmei : {Absent, "", "cover"},
                      process_note : {Absent, "note"},
                      shorishiji : {Absent, "quench"},
                      netsushori : {Absent, "temper"},
                      tags : {Absent, EmptyList, TagList, "a,b"},
                      tagu : {Absent, TagList, "x"}]}

InitNormalize ==
    /\ settings = [supabase |-> TRUE]
    /\ jobs = <<>>
    /\ drawings = [d \in Drawings |-> InitDrawing("c1")]
    /\ files = [d \in Drawings |-> InitFiles(FALSE, 0, 0)]
    /\ vectors = {}
    /\ stop = FALSE
    /\ pc = "fetch"
    /\ job = NoJob
    /\ exc = NoExc
    /\ stagesRun = {}
    /\ stagesFailed = {}
    /\ other = NoWorker
    /\ cascade = NoCascade
    /\ ocrRun = NoOcrRun
    /\ rules = NoRules
    /\ \E ai_result \in AiResults :
          norm = [pc |-> "loop", ai_result |-> ai_result, i |-> 1,
                  normalized |-> <<>>]

en_key == column_keys[norm.i]

\* "val" after the search through the aliased keys.
NormVal == NormalizedValue(norm.ai_result, en_key)

\* The last test of the loop body.
NormKept == ~Missing(NormVal) /\ (en_key # "tags" \/ IsList(NormVal))

\* The canonical key has a value, and it is kept.
NormKeepCanonical ==
    /\ norm.pc = "loop"
    /\ norm.i <= Len(column_keys)
    /\ ~Missing(Get(norm.ai_result, en_key))
    /\ NormKept
    /\ norm' = [norm EXCEPT
                  !.i = @ + 1,
                  !.normalized = SetKey(@, en_key, Get(norm.ai_result, en_key))]
    /\ UNCHANGED normFrame

\* The canonical key has none; the first aliased key with a value gives it.
NormKeepAlias ==
    /\ norm.pc = "loop"
    /\ norm.i <= Len(column_keys)
    /\ Missing(Get(norm.ai_result, en_key))
    /\ NormKept
    /\ norm' = [norm EXCEPT
                  !.i = @ + 1,
                  !.normalized = SetKey(@, en_key, AliasValue(norm.ai_result, en_key))]
    /\ UNCHANGED normFrame

\* No value under any key, or tags that is no list.
NormOmit ==
    /\ norm.pc = "loop"
    /\ norm.i <= Len(column_keys)
    /\ ~NormKept
    /\ norm' = [norm EXCEPT !.i = @ + 1]
    /\ UNCHANGED normFrame

NormReturn ==
    /\ norm.pc = "loop"
    /\ norm.i > Len(column_keys)
    /\ norm' = [norm EXCEPT !.pc = "done"]
    /\ UNCHANGED normFrame

NextNormalize ==
    \/ NormKeepCanonical
    \/ NormKeepAlias
    \/ NormOmit
    \/ NormReturn

SpecNormalize == InitNormalize /\ [][NextNormalize]_vars

\* ================================================================ claims
StatusChanged(i) == jobs'[i].status # jobs[i].status

Terminal(j) == j.status \in {"success", "error"}

\* The exceptions that leave the stage runner.
StageRunnerExceptions == {CompanyIdNotFound, NoImagesFromPdf, ExternalError}

\* C1: a job's status moves only queued -> running -> success or
\* queued -> running -> error; running is written only to a job that was
\* queued, and a job that is success or error is never written again.
C1_StatusLifecycle ==
    [][\A i \in DOMAIN jobs :
          /\ StatusChanged(i) =>
                <<jobs[i].status, jobs'[i].status>> \in
                    {<<"queued", "running">>, <<"running", "success">>,
                     <<"running", "error">>}
          /\ Terminal(jobs[i]) => jobs'[i] = jobs[i]]_vars

\* A later poll cycle is fetching while one job has ended success and
\* another has ended error.
C1_Witness ==
    /\ pc = "fetch"
    /\ \E i, k \in DOMAIN jobs :
          jobs[i].status = "success" /\ jobs[k].status = "error"

\* C2: the write of running (with step and started_at) is complete before
\* the first action of the stage runner for that job, the runner starts only
\* from a completed claim write, and a claim write that fails starts nothing.
C2_ClaimBeforePipeline ==
    [][/\ (pc \in PipelinePcs) =>
              /\ jobs[job].status = "running"
              /\ jobs[job].step = "convert"
              /\ jobs[job].started_at # None
       /\ (pc \notin PipelinePcs /\ pc' \in PipelinePcs) =>
              /\ pc = "claim"
              /\ jobs[job].status = "queued"
              /\ jobs'[job].status = "running"
       /\ (pc = "claim" /\ jobs'[job] = jobs[job]) => pc' \notin PipelinePcs
       /\ (drawings' # drawings \/ files' # files \/ vectors' # vectors) =>
              /\ pc \in PipelinePcs
              /\ jobs[job].status = "running"]_vars

\* The drawing status update, first action of the runner, has been made
\* for a job that is running with its step label and started_at.
C2_Witness ==
    /\ pc = "lookup"
    /\ drawings[D].status = "processing"
    /\ jobs[job].status = "running"
    /\ jobs[job].step = "convert"
    /\ jobs[job].started_at = Timestamp

Queued == {i \in DOMAIN jobs : jobs[i].status = "queued"}

Earliest(i) == \A k \in Queued : jobs[i].created_at <= jobs[k].created_at

\* C3: a cycle claims at most one job; the job the fetch returns and the job
\* the claim marks running is a queued job with the earliest created_at, so
\* of two queued jobs the one created earlier is claimed first.
C3_OldestClaimedFirst ==
    [][LET claimed == {i \in DOMAIN jobs :
                          jobs[i].status = "queued" /\ jobs'[i].status = "running"}
       IN /\ Cardinality(claimed) <= 1
          /\ \A i \in claimed :
                /\ pc = "claim"
                /\ i = job
                /\ Earliest(i)
                /\ pc' \in {"set_processing", "cancelled"}
          /\ (pc = "fetch" /\ pc' = "claim") =>
                /\ job' \in Queued
                /\ Earliest(job')]_vars

\* Of two jobs, the one created earlier has been claimed and the later one
\* is still queued.
C3_Witness ==
    \E i, k \in DOMAIN jobs :
        /\ jobs[i].created_at < jobs[k].created_at
        /\ job = i
        /\ jobs[i].status = "running"
        /\ jobs[k].status = "queued"
        /\ pc = "set_processing"

\* C4: a job that is running is not returned by the fetch of a later cycle,
\* no second claim is written to it and the stage runner is not started for
\* it again, as long as it is running.
C4_RunningNotRefetched ==
    [][\A i \in DOMAIN jobs :
          jobs[i].status = "running" =>
              /\ i \notin fetch_one_queued_job
              /\ (pc = "fetch" /\ pc' = "claim") => job' # i
              /\ (pc = "claim" /\ pc' \in PipelinePcs) => job # i
              /\ jobs'[i].status = "running" => jobs'[i] = jobs[i]]_vars

\* A later cycle has fetched another job while a job of an earlier cycle is
\* still running.
C4_Witness ==
    /\ pc = "claim"
    /\ \E i \in DOMAIN jobs : i # job /\ jobs[i].status = "running"

Running(d) ==
    {i \in DOMAIN jobs : jobs[i].drawing_id = d /\ jobs[i].status = "running"}

\* C5: at every moment at most one job of a drawing is running.
C5_OneRunningPerDrawing ==
    \A d \in Drawings : Cardinality(Running(d)) <= 1

\* The stage runner returned for the job in hand: the success write is
\* pending, or it raised and the except clause has its exception.
RunnerReturned ==
    \/ pc = "mark_success"
    \/ pc = "mark_error" /\ exc = JobStoreError

RunnerRaised == pc = "mark_error" /\ exc \in StageRunnerExceptions

CaughtEarly == stagesFailed \cap {"ocr", "extract"} # {}

RasterizeRaised ==
    /\ pc = "mark_error"
    /\ "rasterize" \in stagesRun
    /\ exc # JobStoreError

UpsertRaised == "upsert" \in stagesFailed

NoArtifacts == ~files[D].has_pdf /\ files[D].page_images = 0

\* The runner returned for a drawing without artifacts.
NoArtifactsReturned ==
    /\ pc \in {"mark_success", "mark_error"}
    /\ exc \in {NoExc, JobStoreError}
    /\ NoArtifacts

C13_ProcessingFirst ==
    [][/\ \A d \in Drawings :
             drawings'[d].status # drawings[d].status =>
                 /\ pc = "set_processing"
                 /\ d = D
                 /\ drawings'[d].status = "processing"
       /\ (pc # "lookup" /\ pc' = "lookup") =>
             /\ pc = "set_processing"
             /\ drawings'[D].status = "processing"
       /\ (pc \in PipelinePcs \ {"set_processing"}) =>
             /\ drawings[D].status = "processing"
             /\ drawings'[D].status = "processing"
       /\ (pc \in {"mark_success", "mark_error"}) => drawings' = drawings]_vars

\* A job of the drawing without artifacts has ended success and the
\* drawing's status is still processing.
C13_Witness ==
    \E i \in DOMAIN jobs :
        /\ jobs[i].status = "success"
        /\ jobs[i].drawing_id = "d2"
        /\ drawings["d2"].status = "processing"

\* A job is in flight: claimed, and its cycle has not made its final write.
InFlight ==
    /\ pc \in PipelinePcs \cup {"mark_success", "mark_error"}
    /\ jobs[job].status = "running"

\* C14: a shutdown signal that arrives while a job is in flight does not
\* cancel its cycle: the stage runner and the rest of the cycle finish, and
\* only the idle wait between cycles is interrupted.
C14_InFlightCycleFinishes ==
    [][InFlight => pc' # "cancelled"]_vars

\* A step of the process that holds pc (the scheduler's switch is none).
OwnStep == other' = other

\* C15: the fetch returns jobs by their status alone and the claim writes
\* running whatever the job's status has become meanwhile (no
\* compare-and-swap); so two processes can both fetch a queued job before
\* either claims it, and both then run the stage runner for it.
C15_ClaimUnconditional ==
    [][/\ (OwnStep /\ pc = "fetch" /\ pc' = "claim") =>
             jobs[job'].status = "queued"
       /\ (OwnStep /\ pc = "claim" /\ pc' \in PipelinePcs) =>
             /\ pc' = "set_processing"
             /\ jobs'[job].status = "running"
             /\ jobs'[job].step = "convert"
             /\ jobs'[job].started_at = Timestamp]_vars

\* Both processes hold the same job and each has run the OCR stage for it.
C15_Witness ==
    /\ other # NoWorker
    /\ job # NoJob
    /\ job = other.job
    /\ pc \in PipelinePcs
    /\ other.pc \in PipelinePcs
    /\ "ocr" \in stagesRun
    /\ "ocr" \in other.stagesRun

\* ---- claims about the extraction cascade (SpecCascade)
Called(name) == \E i \in 1..Len(cascade.calls) : cascade.calls[i] = name

FirstCall(name) ==
    CHOOSE i \in 1..Len(cascade.calls) :
        /\ cascade.calls[i] = name
        /\ \A k \in 1..(i - 1) : cascade.calls[k] # name

CascadeReturned == cascade.pc \in {"save", "done", "failed"}

RuleRecordUsed ==
    Called("_extract_by_rules") /\ has_any_extracted_value(cascade.rule_result)

RuleRecordEmpty ==
    Called("_extract_by_rules") /\ ~has_any_extracted_value(cascade.rule_result)

\* C16: when the rule engine's record has a value, the cascade returns that
\* record (its date checked) without any generate_content call, without
\* calling either extraction function and without fetching the page image.
C16_RuleRecordNoModelCall ==
    RuleRecordUsed =>
        /\ cascade.model_calls = 0
        /\ ~Called("page_images")
        /\ ~Called("get_image_bytes_from_gcs")
        /\ ~Called("extract_drawing_fields_multimodal")
        /\ ~Called("extract_drawing_fields")
        /\ CascadeReturned
        /\ cascade.result = ValidateIssueDate(cascade.rule_result)

C16_Witness ==
    /\ RuleRecordUsed
    /\ cascade.pc = "done"
    /\ cascade.api_key
    /\ cascade.page_image = "readable"
    /\ drawings["d1"].extracted_json["ai"] = cascade.result

MultimodalStepFailed ==
    /\ Called("get_image_bytes_from_gcs")
    /\ \/ cascade.page_image = "unreadable"
       \/ /\ Called("extract_drawing_fields_multimodal")
          /\ cascade.pc # "text" \/ Unusable(cascade.ai_result)

\* C18: after a failed multimodal step (the download gives nothing, or the
\* multimodal call ends without a value) the cascade has not raised: it is
\* about to make the text-only call or has made it.
C18_MultimodalFailureGoesToTextOnly ==
    MultimodalStepFailed =>
        \/ cascade.pc = "text" /\ Unusable(cascade.ai_result)
        \/ Called("extract_drawing_fields")

C18_Witness ==
    /\ MultimodalStepFailed
    /\ cascade.page_image = "unreadable"
    /\ cascade.pc = "done"
    /\ Called("extract_drawing_fields")
    /\ cascade.result # NoResult
    /\ drawings["d1"].extracted_json["ai"] = cascade.result

\* C19: when the text-only call too ends without a value, the cascade
\* returns {} and the extract stage leaves the drawing row as it was.
C19_NoResultPersistsNothing ==
    [][(Called("extract_drawing_fields") /\ Unusable(cascade.ai_result)) =>
          /\ cascade.pc = "check" => cascade'.result = NoResult
          /\ cascade.pc = "save" =>
                /\ cascade.result = NoResult
                /\ drawings' = drawings]_vars

C19_Witness ==
    /\ Called("extract_drawing_fields_multimodal")
    /\ Called("extract_drawing_fields")
    /\ cascade.model_calls = 1
    /\ cascade.answer # NoResult
    /\ cascade.result = NoResult
    /\ cascade.pc = "done"
    /\ drawings["d1"].columns = [part_name |-> "old"]
    /\ drawings["d1"].extracted_json["ai"] = [part_name |-> "old"]

PersistedIssueDates ==
    {Get(drawings["d1"].columns, "issue_date")}
    \cup (IF "ai" \in DOMAIN drawings["d1"].extracted_json
              THEN {Get(drawings["d1"].extracted_json["ai"], "issue_date")}
              ELSE {})

\* C20: once the stage has saved, the issue_date of the drawing (column and
\* ai sub-document) is absent, null or a text in YYYY-MM-DD form.
C20_PersistedDateIsIso ==
    cascade.pc = "done" =>
        \A v \in PersistedIssueDates : v = None \/ IsIsoDate(Chars(v))

Column(row, k) == Get(row.columns, k)

\* C21: a column of the drawing changes only in the stage's save, and then
\* only to the non-empty value the normalized result has for it; a column
\* for which the normalized result has nothing keeps its value.
C21_ColumnsOnlyFromValues ==
    [][/\ drawings'["d1"].columns # drawings["d1"].columns => cascade.pc = "save"
       /\ cascade.pc = "save" =>
             /\ DOMAIN drawings'["d1"].columns \subseteq
                    DOMAIN drawings["d1"].columns \cup ColumnKeys
             /\ \A k \in ColumnKeys \cup DOMAIN drawings["d1"].columns :
                   LET v == Get(normalize_ai_result(cascade.result), k)
                   IN \/ Column(drawings'["d1"], k) = Column(drawings["d1"], k)
                      \/ /\ ~Falsy(v)
                         /\ Column(drawings'["d1"], k) = v]_vars

C21_Witness ==
    /\ cascade.pc = "done"
    /\ cascade.result # NoResult
    /\ Get(cascade.result, "part_name") = None
    /\ drawings["d1"].columns = [part_name |-> "old", tags |-> TagList]

Doc(d) == drawings[d].extracted_json

\* The keys of the stored document other than own keep their values.
OthersKept(d, own) ==
    /\ DOMAIN drawings'[d].extracted_json \subseteq DOMAIN Doc(d) \cup {own}
    /\ \A k \in DOMAIN Doc(d) \ {own} :
          /\ k \in DOMAIN drawings'[d].extracted_json
          /\ drawings'[d].extracted_json[k] = Doc(d)[k]

\* C22: the OCR stage changes only the ocr key of extracted_json and the
\* extract stage only the ai key; every other key of the stored document,
\* the sibling included, keeps its value, and a document that did not exist
\* is created; no other step changes the document.
C22_WritersKeepSiblingKey ==
    [][\A d \in Drawings :
          /\ pc = "ocr" => OthersKept(d, "ocr")
          /\ pc = "extract" => OthersKept(d, "ai")
          /\ pc \notin {"ocr", "extract"} => drawings'[d].extracted_json = Doc(d)]_vars

C22_Witness ==
    /\ pc = "vectorize"
    /\ job = 2
    /\ jobs[1].drawing_id = jobs[2].drawing_id
    /\ jobs[1].status = "success"
    /\ stagesRun = {"ocr", "extract"}
    /\ stagesFailed = {}
    /\ DOMAIN Doc(D) = {"ocr", "ai"}
    /\ Doc(D)["ocr"].ocr_text = ""

\* ---- claims about the OCR run (SpecOcr)
OcrDone == ocrRun.pc = "done"

DbFailedPages == {f[1] : f \in ocrRun.db_failed}

\* The returned ocr_text holds the page's marker, a newline and the text.
InOcrText(page_no, text) ==
    \E k \in 1..Len(ocrRun.result.ocr_text) :
        /\ ocrRun.result.ocr_text[k] = PageMarker(page_no)
        /\ k + 2 <= Len(ocrRun.result.ocr_text)
        /\ ocrRun.result.ocr_text[k + 1] = "\n"
        /\ ocrRun.result.ocr_text[k + 2] = text

MarkerInOcrText(page_no) ==
    \E k \in 1..Len(ocrRun.result.ocr_text) :
        ocrRun.result.ocr_text[k] = PageMarker(page_no)

\* C23: a page whose dimension update, token delete or token insert failed
\* still has its recognized text in the returned pages list and, when not
\* empty, in ocr_text after the page's marker; the run returns, and the
\* pages after it are processed.
C23_DbFailureKeepsText ==
    /\ ocrRun.pc # "query" =>
          \A p \in DbFailedPages :
              /\ p <= Len(ocrRun.pages)
              /\ ocrRun.pages[p] = [page_no |-> p, text |-> ocrRun.recognized[p].text]
    /\ OcrDone =>
          /\ DbFailedPages # {} => Len(ocrRun.result.pages) = ocrRun.n
          /\ \A p \in DbFailedPages :
                /\ ocrRun.result.pages[p].text = ocrRun.recognized[p].text
                /\ ocrRun.recognized[p].text # "" =>
                      InOcrText(p, ocrRun.recognized[p].text)

C23_Witness ==
    /\ OcrDone
    /\ ocrRun.n = 2
    /\ ocrRun.db_failed = {<<1, "insert">>}
    /\ ocrRun.recognized[1].text = "abc"
    /\ ocrRun.result.ocr_text = <<"[page 1]", "\n", "abc", "\n\n", "[page 2]", "\n", "abc">>
    /\ 2 \in ocrRun.persisted

\* The pages whose iteration has ended.
PagesEnded ==
    IF ocrRun.pc \in {"query"} THEN 0
    ELSE IF ocrRun.pc \in {"join", "done"} THEN ocrRun.n
    ELSE IF ocrRun.pc \in {"download", "recognize"} THEN ocrRun.i - 1
    ELSE ocrRun.i

\* C24: pages gets exactly one entry per page image, in page order; a page
\* whose download failed or on which nothing was recognized has an entry
\* with empty text and no marker in ocr_text, and the pages after it get
\* their entries too.
C24_OneEntryPerPage ==
    /\ ocrRun.pc # "query" =>
          /\ Len(ocrRun.pages) = PagesEnded
          /\ \A p \in 1..Len(ocrRun.pages) : ocrRun.pages[p].page_no = p
          /\ \A p \in 1..Len(ocrRun.pages) :
                ~ocrRun.recognized[p].downloaded => ocrRun.pages[p].text = ""
    /\ OcrDone =>
          /\ Len(ocrRun.result.pages) = ocrRun.n
          /\ \A p \in 1..ocrRun.n :
                ocrRun.result.pages[p].text = "" => ~MarkerInOcrText(p)

C24_Witness ==
    /\ OcrDone
    /\ ocrRun.n = 2
    /\ ~ocrRun.recognized[1].downloaded
    /\ ocrRun.result.pages = <<[page_no |-> 1, text |-> ""],
                               [page_no |-> 2, text |-> "abc"]>>
    /\ ocrRun.result.ocr_text = <<"[page 2]", "\n", "abc">>

RunsOf(page) == {t.run : t \in ocrRun.ocr_tokens[page]}

TokensOfRun(page) ==
    {TokenRow("this", ocrRun.recognized[page].tokens[k]) :
        k \in 1..Len(ocrRun.recognized[page].tokens)}

\* C25: the rows of ocr_tokens of a page never hold tokens of an earlier
\* run together with tokens of this run, and once the page's persistence
\* has completed they are exactly the tokens recognized in this run.
C25_TokensReplaced ==
    \A p \in 1..OcrPages :
        /\ RunsOf(p) # {"earlier", "this"}
        /\ p \in ocrRun.persisted => ocrRun.ocr_tokens[p] = TokensOfRun(p)

C25_Witness ==
    /\ OcrDone
    /\ 1 \in ocrRun.persisted
    /\ ocrRun.ocr_tokens[1] = {TokenRow("this", "w1"), TokenRow("this", "w2")}
    /\ ocrRun.ocr_tokens[2] = {TokenRow("earlier", "w1"), TokenRow("earlier", "w0")}
    /\ ocrRun.n = 2
    /\ <<2, "delete">> \in ocrRun.db_failed

\* ---- claims about the rule engine (SpecRules)
RulesDone == rules.pc = "done"

\* C26: for the lines of the title-block example the rule engine returns
\* part_name, material, surface_treatment and drawing_no as given there and
\* no process_note.
C26_TitleBlockExample ==
    (RulesDone /\ rules.raw = TitleBlock) =>
        /\ rules.result.part_name = "baseplate"
        /\ rules.result.material = "SS400"
        /\ rules.result.surface_treatment = "kurozome"
        /\ rules.result.drawing_no = "2509-0017"
        /\ rules.result.process_note = None

C26_Witness ==
    /\ RulesDone
    /\ rules.raw = TitleBlock
    /\ rules.lines = TitleBlock
    /\ rules.result = extract_by_rules(TitleBlock)
    /\ rules.result.title = None

\* The loop is at a label line that has a key and has no label next to it.
AtLoneLabel ==
    /\ rules.pc = "loop"
    /\ rules.i <= Len(rules.lines)
    /\ HasKey(rules.lines[rules.i])
    /\ rules.i > 1 \/ rules.i < Len(rules.lines)
    /\ rules.i > 1 => rules.lines[rules.i - 1] \notin KNOWN_LABELS
    /\ rules.i < Len(rules.lines) => rules.lines[rules.i + 1] \notin KNOWN_LABELS

LoneKey == LABEL_TO_KEY[rules.lines[rules.i]]

\* The value trimmed and without leading separators.
Trimmed(v) == Text(RStrip(LStrip(LStrip(Chars(v), "|"), " "), " "))

AdjacentValues ==
    {Trimmed(rules.lines[j]) :
        j \in {rules.i - 1, rules.i + 1} \cap (1..Len(rules.lines))}

\* C27 as stated: at every label line with no label next to it the field of
\* the label is set to an adjacent value, trimmed and without separator.
C27_LoneLabelTakesAdjacent ==
    [][AtLoneLabel => rules'.result[LoneKey] \in AdjacentValues]_vars

\* The adjacent value the rule goes by: the line after the label; the line
\* before it when there is none after, or when the field is part_name or
\* title and the line after is a surface-treatment term.
Preferred ==
    LET i == rules.i
        after == i < Len(rules.lines)
        before == i > 1
    IN IF after /\ ~(/\ before
                    /\ LoneKey \in {"part_name", "title"}
                    /\ rules.lines[i + 1] \in SURFACE_OR_MATERIAL_TERMS)
           THEN Trimmed(rules.lines[i + 1])
           ELSE Trimmed(rules.lines[i - 1])

\* The value is one the rule engine refuses for the field.
Refused(v) ==
    \/ v = ""
    \/ PAGE_SEP_PATTERN(Chars(v))
    \/ /\ LoneKey \in {"part_name", "title"}
       /\ v \in SURFACE_OR_MATERIAL_TERMS \/ DrawingNoAt(Chars(v), 1)
    \/ LoneKey = "drawing_no" /\ v \in NON_DRAWING_NO_TERMS
    \/ LoneKey = "process_note" /\ v = rules.result.material

\* C27: at a label line with no label next to it the field of the label is
\* set to the preferred adjacent value, trimmed and without separator,
\* unless that value is refused for the field; then the field is left as
\* it was.
C27_LoneLabelTakesPreferred ==
    [][AtLoneLabel =>
          rules'.result =
              IF Refused(Preferred) THEN rules.result
              ELSE [rules.result EXCEPT ![LoneKey] = Preferred]]_vars

C27_Witness ==
    /\ RulesDone
    /\ rules.lines = <<"baseplate", "zaishitsu", "| SS400">>
    /\ rules.result.material = "SS400"
    /\ rules.result.part_name = None

IsPageMarker(v) == PAGE_SEP_PATTERN(Chars(v))

\* C28: no field of the rule engine's record is ever a page marker, and a
\* label whose candidate value is a page marker leaves the record as it was.
C28_NoPageMarkerValue ==
    [][/\ \A k \in DOMAIN rules'.result : ~IsPageMarker(rules'.result[k])
       /\ (/\ rules.pc = "loop"
           /\ rules.i <= Len(rules.lines)
           /\ HasKey(rules.lines[rules.i])
           /\ ~Falsy(Candidate(rules.lines, rules.i, LoneKey))
           /\ IsPageMarker(Trimmed(Candidate(rules.lines, rules.i, LoneKey))))
          => rules'.result = rules.result]_vars

C28_Witness ==
    /\ RulesDone
    /\ rules.lines = <<"meisho", "|[page 1]", "baseplate">>
    /\ rules.result = EmptyRuleRecord

NoOcrText == StoredOcrText("d1") = ""

\* C30 as stated: when the drawing has no OCR text the cascade still fetches
\* the first page image and calls multimodal extraction on an image that
\* downloads.
C30_NoTextStillFallsBack ==
    (NoOcrText /\ cascade.pc = "done") =>
        /\ Called("page_images")
        /\ cascade.page_image = "readable" =>
               /\ Called("get_image_bytes_from_gcs")
               /\ Called("extract_drawing_fields_multimodal")

\* C30: when the drawing has no OCR text the cascade returns the empty record
\* at once: the rule engine is not run, the page image is not fetched, no
\* extraction function and no model is called, and the stage writes nothing to
\* the drawing.
C30_NoTextReturnsEmpty ==
    [][NoOcrText =>
          /\ cascade'.pc \in {"save", "done"}
          /\ cascade'.result = NoResult
          /\ cascade'.calls = <<>>
          /\ cascade'.model_calls = 0
          /\ drawings' = drawings]_vars

C30_Witness ==
    /\ NoOcrText
    /\ cascade.pc = "done"
    /\ cascade.page_image = "readable"
    /\ cascade.api_key
    /\ cascade.answer # NoResult
    /\ cascade.calls = <<>>
    /\ cascade.result = NoResult

MarkedRunning(j) == j <= Len(jobs) /\ jobs[j].status = "running"

MarkedFinished(j) == j <= Len(jobs) /\ jobs[j].status \in {"success", "error"}

\* C29 as stated: every job marked running is eventually marked success or
\* error, whatever the pipeline does and also when shutdown is requested while
\* the job is in flight.
C29_RunningEventuallyEnds ==
    \A j \in 1..MaxJobs : MarkedRunning(j) ~> MarkedFinished(j)

AiDocument == drawings["d1"].extracted_json["ai"]

\* C31 as stated: whenever the extract stage persists a record under the ai
\* key, that record (after the date check) has a non-empty scalar field or a
\* non-empty tags list.
C31_PersistedRecordHasValue ==
    [][drawings'["d1"].extracted_json # drawings["d1"].extracted_json =>
          has_any_extracted_value(AiDocument')]_vars

AtRegex == rules.pc = "loop" /\ rules.i > Len(rules.lines)

TextHasDrawingNo == \E k \in 1..Len(rules.raw) : HasDrawingNo(rules.raw[k])

\* The value is four digits, a hyphen, four digits, and nothing else.
IsDrawingNo(v) == v # None /\ Len(Chars(v)) = 9 /\ DrawingNoAt(Chars(v), 1)

\* The value begins with four digits, a hyphen, four digits.
BeginsWithDrawingNo(v) == v # None /\ DrawingNoAt(Chars(v), 1)

AtLabelOf(keys) ==
    /\ rules.pc = "loop"
    /\ rules.i <= Len(rules.lines)
    /\ HasKey(rules.lines[rules.i])
    /\ LABEL_TO_KEY[rules.lines[rules.i]] \in keys

\* The line at position j when there is one and it is no label.
NonLabelAt(j) ==
    IF j \in 1..Len(rules.lines) /\ rules.lines[j] \notin KNOWN_LABELS
        THEN rules.lines[j] ELSE None

\* What the step leaves in the record for a candidate: nothing for no
\* candidate and for a rejected one, else the trimmed candidate.
RecordWith(candidate, rejected) ==
    IF candidate = None \/ Trimmed(candidate) = "" \/ rejected
        THEN rules.result
        ELSE [rules.result EXCEPT ![LoneKey] = Trimmed(candidate)]

NameCandidate ==
    LET value_next == NonLabelAt(rules.i + 1)
        value_prev == NonLabelAt(rules.i - 1)
    IN IF value_next # None /\ value_next \notin SURFACE_OR_MATERIAL_TERMS
           THEN value_next ELSE value_prev

\* C33: at a label of part_name or title the candidate is the next line,
\* unless that line is a surface-treatment/material term or there is none:
\* then it is the previous line; a candidate that (trimmed) is such a term,
\* begins with a drawing number or is a page marker leaves the record as it
\* was, and any other candidate becomes the field's value.
C33_NameCandidate ==
    [][AtLabelOf({"part_name", "title"}) =>
          rules'.result =
              RecordWith(NameCandidate,
                         NameCandidate # None
                         /\ \/ Trimmed(NameCandidate) \in SURFACE_OR_MATERIAL_TERMS
                            \/ BeginsWithDrawingNo(Trimmed(NameCandidate))
                            \/ IsPageMarker(Trimmed(NameCandidate)))]_vars

C33_Witness ==
    /\ RulesDone
    /\ rules.lines = <<"baseplate", "buhinzu", "kurozome">>
    /\ rules.result.title = "baseplate"

\* The nearest non-label line after the run of label lines that starts at
\* position j.
RECURSIVE AfterLabelsFrom(_)
AfterLabelsFrom(j) ==
    IF j > Len(rules.lines) THEN None
    ELSE IF rules.lines[j] \in KNOWN_LABELS THEN AfterLabelsFrom(j + 1)
    ELSE rules.lines[j]

ValueCandidate ==
    IF NonLabelAt(rules.i + 1) # None THEN NonLabelAt(rules.i + 1)
    ELSE IF AfterLabelsFrom(rules.i + 1) # None THEN AfterLabelsFrom(rules.i + 1)
    ELSE NonLabelAt(rules.i - 1)

ValueKeys == {"material", "surface_treatment", "drawing_no", "process_note"}

\* C34: at a label of material, surface_treatment, drawing_no or
\* process_note the candidate is the next line when it is no label, else the
\* nearest following non-label line after the run of label lines, else the
\* previous line when it is no label; the trimmed candidate becomes the
\* field's value unless it is rejected for the field.
C34_ValueCandidate ==
    [][AtLabelOf(ValueKeys) =>
          rules'.result =
              RecordWith(ValueCandidate,
                         ValueCandidate # None
                         /\ \/ IsPageMarker(Trimmed(ValueCandidate))
                            \/ /\ LoneKey = "drawing_no"
                               /\ Trimmed(ValueCandidate) \in NON_DRAWING_NO_TERMS
                            \/ /\ LoneKey = "process_note"
                               /\ Trimmed(ValueCandidate) = rules.result.material)]_vars

C34_Witness ==
    /\ RulesDone
    /\ rules.lines = <<"zuban", "zaishitsu", "baseplate">>
    /\ rules.result.drawing_no = "baseplate"
    /\ rules.result.material = "baseplate"

\* C35: a label of process_note whose candidate equals the material value
\* resolved so far leaves process_note, and the whole record, as it was.
C35_NoteNotMaterial ==
    [][(/\ AtLabelOf({"process_note"})
        /\ ValueCandidate # None
        /\ rules.result.material # None
        /\ Trimmed(ValueCandidate) = rules.result.material)
          => rules'.result = rules.result]_vars

C35_Witness ==
    /\ RulesDone
    /\ rules.lines = <<"zaishitsu", "netsushori", "| SS400">>
    /\ rules.result.material = "SS400"
    /\ rules.result.process_note = None

\* The value is null, an empty text or an empty list.
Empty(v) == v \in {None, "", EmptyList}

AliasesOf(k) == {a \in DOMAIN AI_KEY_TO_COLUMN : AI_KEY_TO_COLUMN[a] = k}

\* C36 as stated: the normalized record has, for each of the eight fields,
\* the canonical key's value when it is present and non-empty, else the
\* non-empty value of an aliased key of the field, and no entry when there is
\* neither; tags only when the value is a list.
C36_NormalizedFields ==
    norm.pc = "done" =>
        \A k \in ColumnKeys :
            LET canonical == Get(norm.ai_result, k)
                aliased == {Get(norm.ai_result, a) : a \in AliasesOf(k)}
                              \ {None, "", EmptyList}
                kept(v) == k # "tags" \/ IsList(v)
            IN IF ~Empty(canonical)
                   THEN IF kept(canonical)
                            THEN Get(norm.normalized, k) = canonical
                            ELSE k \notin DOMAIN norm.normalized
               ELSE IF aliased # {}
                   THEN \/ /\ k \in DOMAIN norm.normalized
                           /\ norm.normalized[k] \in aliased
                           /\ kept(norm.normalized[k])
                        \/ /\ k \notin DOMAIN norm.normalized
                           /\ \E v \in aliased : ~kept(v)
               ELSE k \notin DOMAIN norm.normalized

\* C36: the same, where "non-empty" means neither null nor the empty text:
\* an empty list under the canonical key tags is a value, is kept, and keeps
\* the aliased key from being looked at.
C36_NormalizedNonNull ==
    norm.pc = "done" =>
        \A k \in ColumnKeys :
            LET canonical == Get(norm.ai_result, k)
                aliased == {Get(norm.ai_result, a) : a \in AliasesOf(k)}
                              \ {None, ""}
                kept(v) == k # "tags" \/ IsList(v)
            IN IF ~Missing(canonical)
                   THEN IF kept(canonical)
                            THEN Get(norm.normalized, k) = canonical
                            ELSE k \notin DOMAIN norm.normalized
               ELSE IF aliased # {}
                   THEN \/ /\ k \in DOMAIN norm.normalized
                           /\ norm.normalized[k] \in aliased
                           /\ kept(norm.normalized[k])
                        \/ /\ k \notin DOMAIN norm.normalized
                           /\ \E v \in aliased : ~kept(v)
               ELSE k \notin DOMAIN norm.normalized

C36_Witness ==
    /\ norm.pc = "done"
    /\ norm.ai_result = [part_name |-> "", hinmei |-> "cover",
                         tags |-> EmptyList, tagu |-> TagList]
    /\ norm.normalized = [part_name |-> "cover", tags |-> EmptyList]

\* The task leaves position p by a step that wrote nothing to the job in
\* hand, with no shutdown requested: the call awaited there raised.
RaisedAt(p) ==
    /\ pc = p
    /\ pc' # p
    /\ ~stop'
    /\ jobs'[job] = jobs[job]

\* C37: the polling task ends only after a shutdown request.  A failed
\* fetch, claim write or error write is followed by the sleep, the sleep by
\* the next cycle's fetch; after a failed claim write the job is still queued
\* and is what the fetch query returns.
C37_EscapedExceptionKeepsLoop ==
    [][/\ pc' \in {"cancelled", "stopped"} => stop'
       /\ (pc = "fetch" /\ pc' # pc /\ ~stop') => pc' \in {"claim", "sleep"}
       /\ RaisedAt("claim") =>
             /\ pc' = "sleep"
             /\ jobs'[job].status = "queued"
             /\ job \in fetch_one_queued_job'
       /\ RaisedAt("mark_error") =>
             /\ pc' = "sleep"
             /\ jobs'[job].status = "running"
       /\ (pc = "sleep" /\ ~stop) => ENABLED Wake
       /\ (pc = "sleep" /\ pc' # pc /\ ~stop') => pc' = "fetch"]_vars

\* After the error write of job 1 failed (job 1 is left running), the loop
\* has slept, started the next cycle and fetched job 2.
C37_Witness ==
    /\ ~stop
    /\ pc = "claim"
    /\ job = 2
    /\ jobs[1].status = "running"
    /\ jobs[2].status = "queued"

\* C38: the vector index holds at most one vector per drawing, each under
\* the drawing's id with the company_id and drawing_id of that drawing; the
\* index changes only in the vectorize stage, where the vector of the drawing
\* in hand is replaced by the one computed from the drawing's document and
\* every other vector stays.
C38_OneVectorPerDrawing ==
    [][/\ \A v, w \in vectors' : v.id = w.id => v = w
       /\ \A v \in vectors' :
             /\ v.drawing_id = v.id
             /\ v.company_id = drawings'[v.id].company_id
       /\ vectors' # vectors =>
             /\ pc = "vectorize"
             /\ {v \in vectors' : v.id # D} = {v \in vectors : v.id # D}
             /\ {v \in vectors' : v.id = D} =
                    {[id |-> D,
                      values |-> build_search_text(drawings[D].extracted_json),
                      company_id |-> drawings[D].company_id,
                      drawing_id |-> D]}]_vars

\* Two jobs of drawing d1 have run to success and the index holds the one
\* vector of d1, computed from the document with OCR text and extraction.
C38_Witness ==
    /\ Len(jobs) = 2
    /\ \A j \in 1..2 : jobs[j].drawing_id = "d1" /\ jobs[j].status = "success"
    /\ "ai" \in DOMAIN drawings["d1"].extracted_json
    /\ vectors = {Vector("d1")}

\* The file index of the drawing in hand is as one complete rasterization of
\* its PDF left it.
RasterizedOnce ==
    /\ files[D].has_pdf
    /\ files[D].pdf_pages > 0
    /\ files[D].page_images = files[D].pdf_pages
    /\ files[D].thumbnails = 1

\* C39 as stated: rasterizing a drawing with a PDF a second time leaves the
\* drawing with the page images and the thumbnail of the first complete run,
\* and the OCR stage that follows sees each page once.
C39_RasterizeIdempotent ==
    [][(pc = "rasterize" /\ pc' = "ocr" /\ RasterizedOnce) =>
          /\ files'[D] = files[D]
          /\ \A r \in OcrResults(D)' : r.pages = files[D].pdf_pages]_vars

====
